---- MODULE Spec2Model ----
(***************************************************************************)
(* A model of pieces of the MFM sources:                                   *)
(*   - ByteSource   (ByteSource.h): Read / Unread / Peek / Reset, the      *)
(*     Lex-negative reader, the identifier and quoted-string scanners;     *)
(*   - Element      (Element.h): type allocation and GetType;              *)
(*   - Element_Shark (Element_Shark.h): one event of a Shark;              *)
(*   - AbstractGUIDriver (AbstractGUIDriver.h): the screen configuration   *)
(*     and the frame loop with its pause, step and admin controls.         *)
(* Each piece has its own specification over the shared variables.         *)
(***************************************************************************)
EXTENDS Integers, Sequences, FiniteSets, TLC

VARIABLES
    input,      \* the bytes the concrete source delivers through ReadByte()
    bs,         \* the ByteSource object: m_read, m_lastRead, m_unread, its
                \* position in `input`, the pending FAIL code and its call trace
    sink,       \* the bytes written so far to the result ByteSink
    lastOp,     \* name of the last public method called
    ret,        \* what that call returned
    pre,        \* the ByteSource as it was when that call started
    preSink,    \* the sink as it was when that call started
    nops,       \* number of public calls made so far
    failure,    \* the FAIL code the last call ended with, or "none"
    el,         \* the Element objects: m_UUID, m_type, m_hasType, m_defaultAtom
    loader,     \* U16StaticLoader: the types allocated so far, by UUID
    ehist,      \* per Element: calls of AllocateType, of the loader, first type
    target,     \* the Element the last call was made on
    grid,       \* the atom at each site of the grid
    m_sharkEnergyPerFish,   \* the static parameter of Element_Shark
    event,      \* the last Shark event: its centre, window calls and locals
    nevents,    \* number of Shark events so far
    lineage,    \* per site holding a Shark of a starving world: the events
                \* centred on it and its ancestors, and the first one's energy
    drv,        \* the AbstractGUIDriver object, with the AbstractDriver
                \* statistics its screen configuration holds
    preDrv,     \* the driver as it was when the last call on it started
    saved,      \* the driver as it was when the bytes of `input` were saved
    intact,     \* whether `input` still is what SaveScreenConfig wrote
    loop,       \* RunHelper: where the frame is, its mouseButtonsDown, and the
                \* events handled in this frame and frames completed
    fhist,      \* what happened since the last run or step command, the last
                \* Update call and the last click on an admin button
    chan,       \* per tile and direction: the state of the cache channel
    tiles,      \* per tile: where its worker is in the event it is running
    atoms,      \* per tile: its atom storage, interior cells and halo cells
    acked       \* per tile and halo cell: the last value whose push the tile
                \* has acknowledged

vars == <<input, bs, sink, lastOp, ret, pre, preSink, nops,
          failure, el, loader, ehist, target,
          grid, m_sharkEnergyPerFish, event, nevents, lineage,
          drv, preDrv, saved, intact, loop, fhist,
          chan, tiles, atoms, acked>>

tileVars == <<chan, tiles, atoms, acked>>

sharkVars == <<grid, m_sharkEnergyPerFish, event, nevents, lineage>>

guiVars == <<drv, preDrv, saved, intact, loop, fhist>>

----------------------------------------------------------------------------
(* Bounds of the model *)

\* longest input over the small alphabets
MaxLen == 3
\* number of public calls in one behaviour
MaxOps == 4

\* F applied to the value of e: a local that holds the result of a call
Bind(e, F(_)) == CHOOSE v \in {F(x) : x \in {e}} : TRUE

----------------------------------------------------------------------------
(* Characters: the C character literals the source compares against *)

Ord(c) ==
    CASE c = "\t" -> 9
      [] c = "\n" -> 10
      [] c = "VT" -> 11
      [] c = " "  -> 32
      [] c = "\"" -> 34
      [] c = "%"  -> 37
      [] c = ","  -> 44
      [] c = "0"  -> 48
      [] c = "1"  -> 49
      [] c = "2"  -> 50
      [] c = "4"  -> 52
      [] c = "5"  -> 53
      [] c = "9"  -> 57
      [] c = "A"  -> 65
      [] c = "F"  -> 70
      [] c = "Z"  -> 90
      [] c = "_"  -> 95
      [] c = "a"  -> 97
      [] c = "f"  -> 102
      [] c = "g"  -> 103
      [] c = "n"  -> 110
      [] c = "z"  -> 122

\* what ReadByte() returns once the source is exhausted (any negative s32)
EOF == 0 - 1

----------------------------------------------------------------------------
(* u32 arithmetic, kept to its width: a u32 is <<high half, low half>> of   *)
(* 16 bits each, so that 2^32 - 1 is representable                          *)

Half == 2 ^ 16

U32(n) == <<n \div Half, n % Half>>

U32Inc(x) ==
    IF x[2] = Half - 1 THEN <<(x[1] + 1) % Half, 0>> ELSE <<x[1], x[2] + 1>>

U32Dec(x) ==
    IF x[2] = 0 THEN <<(x[1] - 1) % Half, Half - 1>> ELSE <<x[1], x[2] - 1>>

\* x * base + d, modulo 2^32
U32MulAdd(x, base, d) ==
    LET lo == x[2] * base + d
        hi == x[1] * base + (lo \div Half)
    IN  <<hi % Half, lo % Half>>

\* (s32) x
S32(x) ==
    IF x[1] >= Half \div 2 THEN (x[1] - Half) * Half + x[2]
                           ELSE x[1] * Half + x[2]

\* -(s32) x, two's complement
NegS32(x) ==
    IF x = <<Half \div 2, 0>> THEN S32(x) ELSE 0 - S32(x)

----------------------------------------------------------------------------
(* ByteSource: construction, ReadByte, Read, Unread, Peek, Reset *)

NewByteSource ==
    [m_read |-> U32(0), m_lastRead |-> 0 - 1, m_unread |-> FALSE,
     pos |-> 0, fail |-> "none", trace |-> <<>>]

\* the value the next ReadByte() call returns
SourceByte(b) ==
    IF b.pos < Len(input) THEN input[b.pos + 1] ELSE EOF

ReadByte(b) ==
    [b EXCEPT !.pos = IF @ < Len(input) THEN @ + 1 ELSE @,
              !.trace = Append(@, <<"ReadByte", SourceByte(b)>>)]

\* A Read() that ignores the pushed-back character.
ReadIgnoringUnread(b) ==
    LET r == [ReadByte(b) EXCEPT !.m_lastRead = SourceByte(b),
                                 !.m_unread = FALSE]
        s == [r EXCEPT !.m_read = U32Inc(@)]
    IN  [s EXCEPT !.trace = Append(@, <<"Read", s.m_lastRead>>)]

\* s32 Read(): the object after the call; the call returns its m_lastRead
Read(b) ==
    LET r == IF b.m_unread
             THEN [b EXCEPT !.m_unread = FALSE]
             ELSE [ReadByte(b) EXCEPT !.m_lastRead = SourceByte(b)]
        s == [r EXCEPT !.m_read = U32Inc(@)]
    IN  [s EXCEPT !.trace = Append(@, <<"Read", s.m_lastRead>>)]

\* An Unread() that forgets to take the character off the read count.
UnreadKeepingCount(b) ==
    IF b.m_unread
    THEN [b EXCEPT !.fail = "ILLEGAL_STATE"]
    ELSE [b EXCEPT !.m_unread = TRUE, !.trace = Append(@, <<"Unread", 0>>)]

\* An Unread() without the MFM_API_ASSERT_STATE check.
UnreadUnchecked(b) ==
    [b EXCEPT !.m_unread = TRUE,
              !.m_read = U32Dec(@),
              !.trace = Append(@, <<"Unread", 0>>)]

\* void Unread(): MFM_API_ASSERT_STATE(!m_unread) fails before any change
Unread(b) ==
    IF b.m_unread
    THEN [b EXCEPT !.fail = "ILLEGAL_STATE"]
    ELSE [b EXCEPT !.m_unread = TRUE,
                   !.m_read = U32Dec(@),
                   !.trace = Append(@, <<"Unread", 0>>)]

\* s32 Peek(): the object after the call; the call returns PeekValue
Peek(b) == Unread(Read(b))

PeekValue(b) == Read(b).m_lastRead

\* virtual void Reset(): a fresh epoch of the object
Reset(b) ==
    [b EXCEPT !.m_read = U32(0), !.m_lastRead = 0 - 1, !.m_unread = FALSE,
              !.trace = <<>>]

GetBytesRead(b) == b.m_read

\* s32 ReadCounted(u32 & maxLen): <<object after, value returned, maxLen after>>
ReadCounted(b, maxLen) ==
    IF maxLen = 0
    THEN <<b, 0 - 1, maxLen>>
    ELSE LET r == Read(b)
         IN  <<r, r.m_lastRead, IF r.m_lastRead >= 0 THEN maxLen - 1 ELSE maxLen>>

----------------------------------------------------------------------------
(* The Lex32 scanner behind Scan(u32 &, Format::LEX32, ...): a digit-count  *)
(* prefix, then that many decimal digits; a count of nine or more is '9'    *)
(* followed by the Lex encoding of the count.  Results are records          *)
(* [b |-> object after, ok |-> success, num |-> the u32 read].              *)

IsDigit(ch) == ch >= Ord("0") /\ ch <= Ord("9")

RECURSIVE ScanDecDigits(_, _, _)
\* reads up to maxLen decimal digits through ReadCounted, accumulating in u32
ScanDecDigits(b, maxLen, num) ==
    Bind(<<ReadCounted(b, maxLen), num>>, LAMBDA at :
        LET rc == at[1]
        IN  IF maxLen = 0 THEN [b |-> b, ok |-> TRUE, num |-> at[2]]
            ELSE IF rc[2] < 0 THEN [b |-> rc[1], ok |-> FALSE, num |-> at[2]]
            ELSE IF ~IsDigit(rc[2])
            THEN [b |-> Unread(rc[1]), ok |-> FALSE, num |-> at[2]]
            ELSE ScanDecDigits(rc[1], rc[3], U32MulAdd(at[2], 10, rc[2] - Ord("0"))))

RECURSIVE ScanLex32(_)
\* bool ScanLexDigits(u32 & digits): the digit count of the token
ScanLexDigits(b) ==
    LET r == Read(b)
        ch == r.m_lastRead
    IN  IF ~IsDigit(ch) THEN [b |-> Unread(r), ok |-> FALSE, num |-> U32(0)]
        ELSE IF ch = Ord("9") THEN ScanLex32(r)
        ELSE [b |-> r, ok |-> TRUE, num |-> U32(ch - Ord("0"))]

\* bool Scan(u32 & result, Format::LEX32, fieldWidth)
ScanLex32(b) ==
    Bind(ScanLexDigits(b), LAMBDA d :
        IF ~d.ok \/ d.num = U32(0)
        THEN [b |-> d.b, ok |-> FALSE, num |-> U32(0)]
        ELSE ScanDecDigits(d.b, d.num[1] * Half + d.num[2], U32(0)))

\* A ReadNegativeLex32 that does not put back the character that is not 'n'.
ReadNegativeLex32_NoUnread(b) ==
    LET r == Read(b)
        s == ScanLex32(r)
    IN  IF r.m_lastRead # Ord("n") THEN [b |-> r, ret |-> 0]
        ELSE IF ~s.ok THEN [b |-> s.b, ret |-> 1]
        ELSE IF s.num = U32(0) THEN [b |-> s.b, ret |-> 1]
        ELSE IF s.num[1] >= Half \div 2 THEN [b |-> s.b, ret |-> 1]
        ELSE [b |-> s.b, ret |-> NegS32(s.num)]

\* A ReadNegativeLex32 that returns the magnitude without negating it.
ReadNegativeLex32_NoNegation(b) ==
    LET r == Read(b)
        s == ScanLex32(r)
    IN  IF r.m_lastRead # Ord("n") THEN [b |-> Unread(r), ret |-> 0]
        ELSE IF ~s.ok THEN [b |-> s.b, ret |-> 1]
        ELSE IF s.num = U32(0) THEN [b |-> s.b, ret |-> 1]
        ELSE IF s.num[1] >= Half \div 2 THEN [b |-> s.b, ret |-> 1]
        ELSE [b |-> s.b, ret |-> S32(s.num)]

\* A ReadNegativeLex32 without the check that the magnitude fits an s32.
ReadNegativeLex32_NoRangeCheck(b) ==
    LET r == Read(b)
        s == ScanLex32(r)
    IN  IF r.m_lastRead # Ord("n") THEN [b |-> Unread(r), ret |-> 0]
        ELSE IF ~s.ok THEN [b |-> s.b, ret |-> 1]
        ELSE IF s.num = U32(0) THEN [b |-> s.b, ret |-> 1]
        ELSE [b |-> s.b, ret |-> NegS32(s.num)]

\* s32 ReadNegativeLex32(): [b |-> object after, ret |-> value returned]
ReadNegativeLex32(b) ==
    LET r == Read(b)
        s == ScanLex32(r)
    IN  IF r.m_lastRead # Ord("n") THEN [b |-> Unread(r), ret |-> 0]
        ELSE IF ~s.ok THEN [b |-> s.b, ret |-> 1]
        ELSE IF s.num = U32(0) THEN [b |-> s.b, ret |-> 1]
        ELSE IF s.num[1] >= Half \div 2 THEN [b |-> s.b, ret |-> 1]
        ELSE [b |-> s.b, ret |-> NegS32(s.num)]

----------------------------------------------------------------------------
(* Set scans and the double-quoted string scanner.  A scan's result is     *)
(* [b |-> object after, sink |-> result sink after, ret |-> value returned] *)

\* WHITESPACE_CHARS: space, newline, tab, vertical tab
Whitespace == {Ord(" "), Ord("\n"), Ord("\t"), Ord("VT")}

RECURSIVE ScanSet(_, _, _)
\* s32 ScanSet(ByteSink & result, const char * setSpec): copies the run of
\* characters of the set to the sink, puts the first other one back
ScanSet(b, snk, set) ==
    LET r == Read(b)
        more == ScanSet(r, Append(snk, r.m_lastRead), set)
    IN  IF r.m_lastRead \in set
        THEN [more EXCEPT !.ret = @ + 1]
        ELSE [b |-> Unread(r), sink |-> snk, ret |-> 0]

\* s32 SkipWhitespace(): SkipSet(WHITESPACE_SET), into DevNullByteSink
SkipWhitespace(b) == ScanSet(b, <<>>, Whitespace)

\* tolower(ch)
ToLower(ch) ==
    IF ch >= Ord("A") /\ ch <= Ord("Z") THEN ch + (Ord("a") - Ord("A")) ELSE ch

\* A hex digit conversion that forgets tolower().
HexDigitCaseSensitive(ch) ==
    IF ch >= Ord("0") /\ ch <= Ord("9") THEN ch - Ord("0")
    ELSE IF ch >= Ord("a") /\ ch <= Ord("f") THEN ch - Ord("a") + 10
    ELSE 0 - 1

\* the value of ch as a hex digit of an escape, or -1 when it is none
HexDigit(ch) ==
    LET lc == ToLower(ch)
    IN  IF lc >= Ord("0") /\ lc <= Ord("9") THEN lc - Ord("0")
        ELSE IF lc >= Ord("a") /\ lc <= Ord("f") THEN lc - Ord("a") + 10
        ELSE 0 - 1

RECURSIVE ScanQuotedBody(_, _, _, _)
\* the while (true) loop of ScanDoubleQuotedString; buf is a u8
ScanQuotedBody(b, snk, state, buf) ==
    LET r == Read(b)
        ch == r.m_lastRead
        shifted == (buf * 16 + HexDigit(ch)) % 256
    IN  IF ch < 0 \/ ch = Ord("\n")
        THEN [b |-> Unread(r), sink |-> snk, ret |-> FALSE]
        ELSE IF state = "REGULAR"
        THEN IF ch = Ord("\"") THEN [b |-> r, sink |-> snk, ret |-> TRUE]
             ELSE IF ch # Ord("%") THEN ScanQuotedBody(r, Append(snk, ch), "REGULAR", buf)
             ELSE ScanQuotedBody(r, snk, "ESCAPE1", 0)
        ELSE IF HexDigit(ch) < 0
        THEN [b |-> Unread(r), sink |-> snk, ret |-> FALSE]
        ELSE IF state = "ESCAPE1" THEN ScanQuotedBody(r, snk, "ESCAPE2", shifted)
        ELSE ScanQuotedBody(r, Append(snk, shifted), "REGULAR", shifted)

\* A ScanDoubleQuotedString that does not put back what is not a quote.
ScanDoubleQuotedString_NoUnread(b, snk) ==
    LET r == Read(SkipWhitespace(b).b)
    IN  IF r.m_lastRead # Ord("\"")
        THEN [b |-> r, sink |-> snk, ret |-> FALSE]
        ELSE ScanQuotedBody(r, snk, "REGULAR", 0)

\* bool ScanDoubleQuotedString(ByteSink & result)
ScanDoubleQuotedString(b, snk) ==
    LET r == Read(SkipWhitespace(b).b)
    IN  IF r.m_lastRead # Ord("\"")
        THEN [b |-> Unread(r), sink |-> snk, ret |-> FALSE]
        ELSE ScanQuotedBody(r, snk, "REGULAR", 0)

\* the character sets "[_a-zA-Z]", "[_a-zA-Z0-9]", "[A-Z]" and "[a-zA-Z0-9]"
UpperSet == Ord("A")..Ord("Z")

LetterSet == Ord("a")..Ord("z") \cup UpperSet

DigitSet == Ord("0")..Ord("9")

\* A ScanIdentifier whose first set also holds the digits.
ScanIdentifier_DigitFirst(b, snk) ==
    LET first == ScanSet(SkipWhitespace(b).b, snk, {Ord("_")} \cup LetterSet \cup DigitSet)
        more == ScanSet(first.b, first.sink, {Ord("_")} \cup LetterSet \cup DigitSet)
    IN  IF first.ret <= 0
        THEN [b |-> first.b, sink |-> first.sink, ret |-> FALSE]
        ELSE [b |-> more.b, sink |-> more.sink, ret |-> TRUE]

\* bool ScanIdentifier(ByteSink & result)
ScanIdentifier(b, snk) ==
    LET first == ScanSet(SkipWhitespace(b).b, snk, {Ord("_")} \cup LetterSet)
        more == ScanSet(first.b, first.sink, {Ord("_")} \cup LetterSet \cup DigitSet)
    IN  IF first.ret <= 0
        THEN [b |-> first.b, sink |-> first.sink, ret |-> FALSE]
        ELSE [b |-> more.b, sink |-> more.sink, ret |-> TRUE]

\* bool ScanCamelIdentifier(ByteSink & result)
ScanCamelIdentifier(b, snk) ==
    LET first == ScanSet(SkipWhitespace(b).b, snk, UpperSet)
        more == ScanSet(first.b, first.sink, LetterSet \cup DigitSet)
    IN  IF first.ret <= 0
        THEN [b |-> first.b, sink |-> first.sink, ret |-> FALSE]
        ELSE [b |-> more.b, sink |-> more.sink, ret |-> TRUE]

----------------------------------------------------------------------------
(* Element: the two constructors, AllocateType, GetType, GetDefaultAtom *)

\* the Element singletons of a run; Empty is built with the explicit type
Elems == {"Empty", "Shark", "Fish"}

\* T(type, 0, 0, 0)
Atom(type) == [type |-> type]

\* Element(const UUID & uuid)
NewElement(uuid) ==
    [m_UUID |-> uuid, m_type |-> 0, m_hasType |-> FALSE,
     m_defaultAtom |-> Atom(0)]

\* Element(const UUID & uuid, u32 type)
NewTypedElement(uuid, type) ==
    [m_UUID |-> uuid, m_type |-> type, m_hasType |-> TRUE,
     m_defaultAtom |-> Atom(0)]

\* the type the loader holds for uuid after AllocateType(uuid)
LoaderAllocate(l, uuid) ==
    IF uuid \in DOMAIN l.table
    THEN l
    ELSE [table |-> [u \in DOMAIN l.table \cup {uuid} |->
                        IF u = uuid THEN l.next ELSE l.table[u]],
          next |-> l.next + 1]

\* T BuildDefaultAtom() const
BuildDefaultAtom(e) == Atom(e.m_type)

\* An AllocateType that never records that the type has been allocated.
AllocateTypeUnguarded(e, l) ==
    LET l2 == LoaderAllocate(l, e.m_UUID)
        e2 == [e EXCEPT !.m_type = l2.table[e.m_UUID]]
    IN  [e |-> [e2 EXCEPT !.m_defaultAtom = BuildDefaultAtom(e2)],
         l |-> l2, allocated |-> TRUE]

\* void AllocateType(): [e |-> Element after, l |-> loader after,
\* allocated |-> whether U16StaticLoader::AllocateType was called]
AllocateType(e, l) ==
    IF ~e.m_hasType
    THEN LET l2 == LoaderAllocate(l, e.m_UUID)
             e2 == [e EXCEPT !.m_type = l2.table[e.m_UUID], !.m_hasType = TRUE]
         IN  [e |-> [e2 EXCEPT !.m_defaultAtom = BuildDefaultAtom(e2)],
              l |-> l2, allocated |-> TRUE]
    ELSE [e |-> e, l |-> l, allocated |-> FALSE]

\* A GetType that returns m_type without looking at m_hasType.
GetTypeUnchecked(e) == [fail |-> "none", value |-> e.m_type]

\* u32 GetType() const: [fail |-> FAIL code or "none", value |-> the type]
GetType(e) ==
    IF ~e.m_hasType THEN [fail |-> "ILLEGAL_STATE", value |-> 0]
                    ELSE [fail |-> "none", value |-> e.m_type]

\* const T & GetDefaultAtom() const
GetDefaultAtom(e) ==
    IF ~e.m_hasType THEN [fail |-> "ILLEGAL_STATE", value |-> Atom(0)]
                    ELSE [fail |-> "none", value |-> e.m_defaultAtom]

\* static const u32 Element_Shark::TYPE()
TYPE == GetType(el["Shark"])

ECall(op, name, elAfter, loaderAfter, histAfter, value, fail) ==
    /\ nops < MaxOps
    /\ nops' = nops + 1
    /\ lastOp' = op
    /\ target' = name
    /\ el' = elAfter
    /\ loader' = loaderAfter
    /\ ehist' = histAfter
    /\ ret' = value
    /\ failure' = fail
    /\ UNCHANGED <<input, bs, sink, pre, preSink>>
    /\ UNCHANGED sharkVars
    /\ UNCHANGED guiVars
    /\ UNCHANGED tileVars

DoAllocateType ==
    \E name \in Elems :
        LET a == AllocateType(el[name], loader)
            first == ehist[name].calls = 0
        IN  ECall("AllocateType", name,
                  [el EXCEPT ![name] = a.e], a.l,
                  [ehist EXCEPT ![name] =
                      [calls |-> @.calls + 1,
                       allocCalls |-> @.allocCalls + (IF a.allocated THEN 1 ELSE 0),
                       firstType |-> IF first THEN a.e.m_type ELSE @.firstType]],
                  0, "none")

DoGetType ==
    \E name \in Elems :
        ECall("GetType", name, el, loader, ehist,
              GetType(el[name]).value, GetType(el[name]).fail)

DoGetDefaultAtom ==
    \E name \in Elems :
        ECall("GetDefaultAtom", name, el, loader, ehist,
              GetDefaultAtom(el[name]).value.type, GetDefaultAtom(el[name]).fail)

DoTYPE == ECall("TYPE", "Shark", el, loader, ehist, TYPE.value, TYPE.fail)

\* the type Element_Empty passes to the explicit-type constructor
EmptyType == 0

ElementsNew ==
    /\ el = [name \in Elems |->
                IF name = "Empty" THEN NewTypedElement(name, EmptyType)
                                  ELSE NewElement(name)]
    /\ loader = [table |-> <<>>, next |-> 1]
    /\ ehist = [name \in Elems |-> [calls |-> 0, allocCalls |-> 0, firstType |-> 0]]
    /\ target = "none"
    /\ failure = "none"

----------------------------------------------------------------------------
(* Element_Shark: one event of a Shark on a small square grid *)

\* side of the grid, in sites
GridSide == 3
\* number of Shark events in one behaviour
MaxEvents == 1

SHARK_ENERGY_LEN == 9
MAX_SHARK_ENERGY == 2 ^ SHARK_ENERGY_LEN - 1
INITIAL_DEFAULT_BIRTH_AGE == 16
DEFAULT_ENERGY_PER_FISH == 8

Sites == (0 .. GridSide - 1) \X (0 .. GridSide - 1)

Origin == <<0, 0>>

PointAdd(p, q) == <<p[1] + q[1], p[2] + q[2]>>

GetManhattanLength(p) ==
    (IF p[1] < 0 THEN 0 - p[1] ELSE p[1]) + (IF p[2] < 0 THEN 0 - p[2] ELSE p[2])

\* MDist<R>: the offsets of an event window in ascending Manhattan distance
MDistPoints ==
    << <<0, 0>>,
       <<0 - 1, 0>>, <<0, 0 - 1>>, <<0, 1>>, <<1, 0>>,
       <<0 - 2, 0>>, <<0 - 1, 0 - 1>>, <<0 - 1, 1>>, <<0, 0 - 2>>,
       <<0, 2>>, <<1, 0 - 1>>, <<1, 1>>, <<2, 0>> >>

GetPoint(idx) == MDistPoints[idx + 1]

GetFirstIndex(radius) ==
    CHOOSE i \in 0 .. Len(MDistPoints) - 1 :
        /\ GetManhattanLength(GetPoint(i)) = radius
        /\ \A j \in 0 .. i - 1 : GetManhattanLength(GetPoint(j)) < radius

GetLastIndex(radius) ==
    CHOOSE i \in 0 .. Len(MDistPoints) - 1 :
        /\ GetManhattanLength(GetPoint(i)) = radius
        /\ \A j \in i + 1 .. Len(MDistPoints) - 1 :
              GetManhattanLength(GetPoint(j)) > radius

\* atoms, by the fields Element_Shark reads and writes
WaPatAtom(type, birthAge, age, energy) ==
    [type |-> type, birthAge |-> birthAge, age |-> age, energy |-> energy]

EmptyAtom == WaPatAtom("Empty", 0, 0, 0)

FishAtom == WaPatAtom("Fish", 0, 0, 0)

\* what a failed access hands back: no atom of any element
NoAtom == WaPatAtom("none", 0, 0, 0)

GetSharkEnergy(us) == us.energy

SetSharkEnergy(us, energy) == [us EXCEPT !.energy = energy % 2 ^ SHARK_ENERGY_LEN]

\* EventWindow: a site is live when it lies on the grid
IsLiveSite(center, rel) == PointAdd(center, rel) \in Sites

GetRelativeAtom(g, center, rel) ==
    IF IsLiveSite(center, rel) THEN g[PointAdd(center, rel)] ELSE NoAtom

SetRelativeAtom(g, center, rel, atom) ==
    IF IsLiveSite(center, rel) THEN [g EXCEPT ![PointAdd(center, rel)] = atom] ELSE g

\* Random::OneIn(odds), on the draw Create(odds) made, a number below odds
OneIn(odds, draw) == draw = 0

DrawAt(draws, i) == IF i \in DOMAIN draws THEN draws[i] ELSE 0

\* the loop header: for (idx = GetFirstIndex(1); idx <= GetLastIndex(1); ++idx)
NeighborIndices_Radius2 == GetFirstIndex(1) .. GetLastIndex(2)

NeighborIndices == GetFirstIndex(1) .. GetLastIndex(1)

\* if (!window.IsLiveSite(rel)) continue;
CheckLive_Omitted(center, rel) == [log |-> <<>>, skip |-> FALSE]

CheckLive(center, rel) ==
    [log |-> << <<"IsLiveSite", rel, IF IsLiveSite(center, rel) THEN "live" ELSE "dead">> >>,
     skip |-> ~IsLiveSite(center, rel)]

\* if (random.OneIn(++count)) { held = rel; }, with count already incremented
Reservoir_KeepFirst(held, count, rel, draw) == IF count = 1 THEN rel ELSE held

Reservoir(held, count, rel, draw) == IF OneIn(count, draw) THEN rel ELSE held

ScanStart ==
    [fishRel |-> Origin, fishCount |-> 0, emptyRel |-> Origin, emptyCount |-> 0,
     odds |-> <<>>, log |-> <<>>]

\* the neighbour loop of Behavior, from index idx on; st.odds lists the odds
\* of the OneIn calls made so far, the k-th of which gets draws[k]
RECURSIVE ScanNeighbors(_, _, _, _, _)
ScanNeighbors(g, center, draws, idx, st) ==
    IF idx \notin NeighborIndices THEN st
    ELSE
        LET rel == GetPoint(idx)
            chk == CheckLive(center, rel)
            other == GetRelativeAtom(g, center, rel)
            isFish == other.type = "Fish"
            isEmpty == other.type = "Empty"
            fishCount == st.fishCount + (IF isFish THEN 1 ELSE 0)
            emptyCount == st.emptyCount + (IF isEmpty THEN 1 ELSE 0)
            call == Len(st.odds) + 1
            read == [st EXCEPT
                       !.log = @ \o chk.log \o << <<"GetRelativeAtom", rel, other.type>> >>,
                       !.fishCount = fishCount,
                       !.emptyCount = emptyCount,
                       !.fishRel = IF isFish
                                   THEN Reservoir(@, fishCount, rel, DrawAt(draws, call))
                                   ELSE @,
                       !.emptyRel = IF isEmpty
                                    THEN Reservoir(@, emptyCount, rel, DrawAt(draws, call))
                                    ELSE @,
                       !.odds = IF isFish THEN Append(@, fishCount)
                                ELSE IF isEmpty THEN Append(@, emptyCount)
                                ELSE @]
        IN  IF chk.skip
            THEN ScanNeighbors(g, center, draws, idx + 1,
                               [st EXCEPT !.log = @ \o chk.log])
            ELSE ScanNeighbors(g, center, draws, idx + 1, read)

\* An eating Shark whose energy is not capped at MAX_SHARK_ENERGY.
EnergyAfterFish_Uncapped(energy, perFish) == energy + perFish

\* energy = MIN((u32) MAX_SHARK_ENERGY, energy + m_sharkEnergyPerFish): the sum
\* is a u32, so a sum below zero is a value above MAX_SHARK_ENERGY
EnergyAfterFish(energy, perFish) ==
    IF energy + perFish < 0 \/ energy + perFish > MAX_SHARK_ENERGY
    THEN MAX_SHARK_ENERGY
    ELSE energy + perFish

\* A reproducing Shark that hands its whole energy to parent and kid alike.
SplitEnergy_Doubled(energy) == energy

\* energy = energy / 2: parent and kid split it
SplitEnergy(energy) == energy \div 2

\* A Shark that never starves.
Starved_Never(energy) == FALSE

\* bool starved = energy == 0
Starved(energy) == energy = 0

SetCenter(e, atom) ==
    [e EXCEPT !.grid = [@ EXCEPT ![e.center] = atom],
              !.log = Append(@, <<"SetCenterAtom", Origin, atom.type>>)]

SetRelative(e, rel, atom) ==
    [e EXCEPT !.grid = SetRelativeAtom(@, e.center, rel, atom),
              !.log = Append(@, <<"SetRelativeAtom", rel, atom.type>>)]

\* Element_Shark::Behavior on the window centred at `center`; the result holds
\* the grid afterwards, the window calls in order and the loop's locals
Behavior(g, center, perFish, draws) ==
    LET self == g[center]
        energy0 == GetSharkEnergy(self)
        starved == Starved(energy0)
        energy1 == energy0 - 1
        age == self.age
        reproable == age >= self.birthAge
        aged == IF reproable THEN SetSharkEnergy(self, energy1)
                ELSE [SetSharkEnergy(self, energy1) EXCEPT !.age = 1 + age]
        scan == ScanNeighbors(g, center, draws, GetFirstIndex(1), ScanStart)
        enter == [grid |-> g, center |-> center,
                  log |-> << <<"GetCenterAtom", Origin, self.type>> >>,
                  fishRel |-> Origin, fishCount |-> 0,
                  emptyRel |-> Origin, emptyCount |-> 0, odds |-> <<>>]
        scanned == [enter EXCEPT !.log = @ \o scan.log,
                                 !.fishRel = scan.fishRel,
                                 !.fishCount = scan.fishCount,
                                 !.emptyRel = scan.emptyRel,
                                 !.emptyCount = scan.emptyCount,
                                 !.odds = scan.odds]
        fed == EnergyAfterFish(energy1, perFish)
        eater == SetSharkEnergy(aged, IF reproable THEN SplitEnergy(fed) ELSE fed)
        mover == IF reproable THEN SetSharkEnergy(aged, SplitEnergy(energy1)) ELSE aged
        parent(a) == [a EXCEPT !.age = 0]
    IN  IF starved THEN SetCenter(enter, EmptyAtom)
        ELSE IF scan.fishCount > 0
        THEN IF reproable
             THEN SetRelative(SetCenter(scanned, parent(eater)), scan.fishRel, parent(eater))
             ELSE SetRelative(SetCenter(scanned, EmptyAtom), scan.fishRel, eater)
        ELSE IF scan.emptyCount > 0
        THEN IF reproable
             THEN SetRelative(SetCenter(scanned, parent(mover)), scan.emptyRel, parent(mover))
             ELSE SetRelative(SetCenter(scanned, EmptyAtom), scan.emptyRel, mover)
        ELSE SetCenter(scanned, aged)

\* the outcomes of the OneIn calls of one event: one draw below the odds per call
Outcomes(g, center, perFish) ==
    LET odds == Behavior(g, center, perFish, <<>>).odds
    IN  {d \in [1 .. Len(odds) -> 0 .. 3] : \A i \in 1 .. Len(odds) : d[i] < odds[i]}

NoEvent ==
    [center |-> Origin, log |-> <<>>,
     fishRel |-> Origin, fishCount |-> 0, emptyRel |-> Origin, emptyCount |-> 0,
     odds |-> <<>>, draws |-> <<>>, pre |-> [s \in Sites |-> EmptyAtom]]

\* no Shark is followed
NoLineage == [s \in Sites |-> [events |-> 0, origin |-> 0]]

SharkIdle ==
    /\ grid = [s \in Sites |-> EmptyAtom]
    /\ m_sharkEnergyPerFish = DEFAULT_ENERGY_PER_FISH
    /\ event = NoEvent
    /\ nevents = 0
    /\ lineage = NoLineage

----------------------------------------------------------------------------
(* AbstractGUIDriver: the screen configuration written by SaveScreenConfig  *)
(* and read back by LoadScreenConfig.  Printf("%D") writes a u32 in Lex32,  *)
(* Print(.., LXX64) in Lex hex; Scanf reads them back through ByteSource.   *)

\* x divided by base and the remainder, for a u32 x
U32DivMod(x, base) ==
    LET t == (x[1] % base) * Half + x[2]
    IN  [quot |-> <<x[1] \div base, t \div base>>, rem |-> t % base]

DigitChar(d) == IF d < 10 THEN Ord("0") + d ELSE Ord("a") + (d - 10)

RECURSIVE DigitsOf(_, _)
\* the digits of x in the base, most significant first; at least one digit
DigitsOf(x, base) ==
    Bind(U32DivMod(x, base), LAMBDA dm :
        IF dm.quot = U32(0) THEN <<DigitChar(dm.rem)>>
        ELSE Append(DigitsOf(dm.quot, base), DigitChar(dm.rem)))

RECURSIVE PrintLex(_, _)
\* the Lex encoding: the digit count, then the digits; a count of nine or
\* more is '9' followed by the Lex32 encoding of the count
PrintLex(x, base) ==
    Bind(DigitsOf(x, base), LAMBDA digits :
        IF Len(digits) < 9
        THEN <<Ord("0") + Len(digits)>> \o digits
        ELSE <<Ord("9")>> \o PrintLex(U32(Len(digits)), 10) \o digits)

\* the u32 a %D argument is passed as: a bool as 0 or 1, an s32 reinterpreted
BoolArg(flag) == U32(IF flag THEN 1 ELSE 0)

S32Arg(n) == <<(n \div Half) % Half, n % Half>>

\* ByteSink::Printf of a format of "%D" items and literal characters
RECURSIVE Printf(_, _)
Printf(format, args) ==
    Bind(<<format, args>>, LAMBDA fa :
        IF fa[1] = <<>> THEN <<>>
        ELSE IF Head(fa[1]) = "%D"
        THEN PrintLex(Head(fa[2]), 10) \o Printf(Tail(fa[1]), Tail(fa[2]))
        ELSE <<Ord(Head(fa[1]))>> \o Printf(Tail(fa[1]), fa[2]))

RECURSIVE ScanHexDigits(_, _, _)
ScanHexDigits(b, maxLen, num) ==
    Bind(<<ReadCounted(b, maxLen), num>>, LAMBDA at :
        LET rc == at[1]
        IN  IF maxLen = 0 THEN [b |-> b, ok |-> TRUE, num |-> at[2]]
            ELSE IF rc[2] < 0 THEN [b |-> rc[1], ok |-> FALSE, num |-> at[2]]
            ELSE IF HexDigit(rc[2]) < 0
            THEN [b |-> Unread(rc[1]), ok |-> FALSE, num |-> at[2]]
            ELSE ScanHexDigits(rc[1], rc[3], U32MulAdd(at[2], 16, HexDigit(rc[2]))))

\* bool Scan(u64 & result, Format::LXX64), for values below 2^32
ScanLXX64(b) ==
    Bind(ScanLexDigits(b), LAMBDA d :
        IF ~d.ok \/ d.num = U32(0)
        THEN [b |-> d.b, ok |-> FALSE, num |-> U32(0)]
        ELSE ScanHexDigits(d.b, d.num[1] * Half + d.num[2], U32(0)))

\* s32 ByteSource::Scanf: reads the items of the format in order and stops at
\* the first that does not match; every matched item, a "%D" stored through
\* its pointer or a literal character, counts as one match
RECURSIVE Scanf(_, _)
Scanf(b, format) ==
    IF format = <<>> THEN [b |-> b, matches |-> 0, vals |-> <<>>]
    ELSE IF Head(format) = "%D"
    THEN Bind(ScanLex32(b), LAMBDA s :
            IF ~s.ok THEN [b |-> s.b, matches |-> 0, vals |-> <<>>]
            ELSE Bind(Scanf(s.b, Tail(format)), LAMBDA more :
                    [more EXCEPT !.matches = @ + 1, !.vals = <<s.num>> \o @]))
    ELSE Bind(Read(b), LAMBDA r :
            IF r.m_lastRead # Ord(Head(format))
            THEN [b |-> Unread(r), matches |-> 0, vals |-> <<>>]
            ELSE Bind(Scanf(r, Tail(format)), LAMBDA more :
                    [more EXCEPT !.matches = @ + 1]))

\* GUIConstants.h
SCREEN_INITIAL_WIDTH == 1280
SCREEN_INITIAL_HEIGHT == 1024

\* the driver as its constructor leaves it.  The doubles of AbstractDriver
\* (AER, recent AER, overhead percent) are held in millionths.
NewDriver ==
    [m_startPaused |-> TRUE, m_thisUpdateIsEpoch |-> FALSE, m_bigText |-> FALSE,
     m_thisEpochAEPS |-> U32(0), m_captureScreenshots |-> FALSE,
     m_saveStateIndex |-> U32(0), m_epochSaveStateIndex |-> U32(0),
     m_keyboardPaused |-> FALSE, m_singleStep |-> FALSE,
     m_mousePaused |-> FALSE, m_gridPaused |-> FALSE,
     m_reinitRequested |-> FALSE, m_renderStats |-> FALSE, m_batchMode |-> FALSE,
     m_screenWidth |-> U32(SCREEN_INITIAL_WIDTH),
     m_screenHeight |-> U32(SCREEN_INITIAL_HEIGHT),
     m_desiredScreenWidth |-> 0 - 1, m_desiredScreenHeight |-> 0 - 1,
     m_screenResizable |-> TRUE,
     AER |-> 0, RecentAER |-> 0, OverheadPercent |-> 0,
     AEPSPerFrame |-> U32(1), MsSpentRunning |-> U32(0)]

\* (u32) (1000 * x) for a double x held in millionths
Thousandths(millionths) == U32(millionths \div 1000)

\* tmp / 1000.0, in millionths
FromThousandths(tmp) == (tmp[1] * Half + tmp[2]) * 1000

FourD == <<"%D", "%D", "%D", "%D">>

ThreeD == <<"%D", "%D", "%D">>

CommaFourD == <<",", "%D", "%D", "%D", "%D">>

\* A SaveScreenConfig that writes m_singleStep before m_keyboardPaused.
SaveScreenConfig_StepFirst(d) ==
    Printf(FourD, <<d.m_screenWidth, d.m_screenHeight,
                    S32Arg(d.m_desiredScreenWidth), S32Arg(d.m_desiredScreenHeight)>>)
    \o Printf(FourD, <<BoolArg(d.m_startPaused), BoolArg(d.m_thisUpdateIsEpoch),
                       BoolArg(d.m_bigText), d.m_thisEpochAEPS>>)
    \o Printf(ThreeD, <<BoolArg(d.m_captureScreenshots), d.m_saveStateIndex,
                        d.m_epochSaveStateIndex>>)
    \o Printf(FourD, <<BoolArg(d.m_singleStep), BoolArg(d.m_keyboardPaused),
                       BoolArg(d.m_mousePaused), BoolArg(d.m_gridPaused)>>)
    \o Printf(FourD, <<BoolArg(d.m_reinitRequested), BoolArg(d.m_renderStats),
                       BoolArg(d.m_batchMode), BoolArg(d.m_screenResizable)>>)
    \o Printf(CommaFourD, <<Thousandths(d.AER), Thousandths(d.RecentAER),
                            Thousandths(d.OverheadPercent), d.AEPSPerFrame>>)
    \o PrintLex(d.MsSpentRunning, 16)

\* void SaveScreenConfig(ByteSink & bs): the bytes it writes
SaveScreenConfig(d) ==
    Printf(FourD, <<d.m_screenWidth, d.m_screenHeight,
                    S32Arg(d.m_desiredScreenWidth), S32Arg(d.m_desiredScreenHeight)>>)
    \o Printf(FourD, <<BoolArg(d.m_startPaused), BoolArg(d.m_thisUpdateIsEpoch),
                       BoolArg(d.m_bigText), d.m_thisEpochAEPS>>)
    \o Printf(ThreeD, <<BoolArg(d.m_captureScreenshots), d.m_saveStateIndex,
                        d.m_epochSaveStateIndex>>)
    \o Printf(FourD, <<BoolArg(d.m_keyboardPaused), BoolArg(d.m_singleStep),
                       BoolArg(d.m_mousePaused), BoolArg(d.m_gridPaused)>>)
    \o Printf(FourD, <<BoolArg(d.m_reinitRequested), BoolArg(d.m_renderStats),
                       BoolArg(d.m_batchMode), BoolArg(d.m_screenResizable)>>)
    \o Printf(CommaFourD, <<Thousandths(d.AER), Thousandths(d.RecentAER),
                            Thousandths(d.OverheadPercent), d.AEPSPerFrame>>)
    \o PrintLex(d.MsSpentRunning, 16)

\* bool b = tmp, for a u32 tmp
AsBool(tmp) == tmp # U32(0)

\* A restore that also takes the pause state, the save indexes and the mouse
\* flag from the file.
Restore_Everything(d, t) ==
    [d EXCEPT !.m_screenWidth = t[1], !.m_screenHeight = t[2],
              !.m_desiredScreenWidth = S32(t[3]), !.m_desiredScreenHeight = S32(t[4]),
              !.m_startPaused = AsBool(t[5]),
              !.m_thisUpdateIsEpoch = AsBool(t[6]), !.m_bigText = AsBool(t[7]),
              !.m_thisEpochAEPS = t[8], !.m_captureScreenshots = AsBool(t[9]),
              !.m_saveStateIndex = t[10], !.m_epochSaveStateIndex = t[11],
              !.m_keyboardPaused = AsBool(t[12]), !.m_singleStep = AsBool(t[13]),
              !.m_mousePaused = AsBool(t[14]), !.m_gridPaused = AsBool(t[15]),
              !.m_reinitRequested = AsBool(t[16]), !.m_renderStats = AsBool(t[17]),
              !.m_batchMode = AsBool(t[18]), !.m_screenResizable = AsBool(t[19]),
              !.AER = FromThousandths(t[20]), !.RecentAER = FromThousandths(t[21]),
              !.OverheadPercent = FromThousandths(t[22]),
              !.AEPSPerFrame = t[23], !.MsSpentRunning = t[24]]

\* the assignments LoadScreenConfig makes once every scan has succeeded; t
\* lists the temporaries in the order they were scanned
Restore(d, t) ==
    [d EXCEPT !.m_screenWidth = t[1], !.m_screenHeight = t[2],
              !.m_desiredScreenWidth = S32(t[3]), !.m_desiredScreenHeight = S32(t[4]),
              !.m_thisUpdateIsEpoch = AsBool(t[6]), !.m_bigText = AsBool(t[7]),
              !.m_thisEpochAEPS = t[8], !.m_captureScreenshots = AsBool(t[9]),
              !.m_keyboardPaused = AsBool(t[12]), !.m_singleStep = AsBool(t[13]),
              !.m_reinitRequested = AsBool(t[16]), !.m_renderStats = AsBool(t[17]),
              !.m_batchMode = AsBool(t[18]), !.m_screenResizable = AsBool(t[19]),
              !.AER = FromThousandths(t[20]), !.RecentAER = FromThousandths(t[21]),
              !.OverheadPercent = FromThousandths(t[22]),
              !.AEPSPerFrame = t[23], !.MsSpentRunning = t[24]]

\* the scans of LoadScreenConfig, each begun only if the one before matched
\* its count: [b |-> source after, ok |-> all matched, tmp |-> the temporaries
\* scanned, done |-> number of scans that matched]
ScanScreenConfig(b) ==
    LET stop(s, t, n) == [b |-> s.b, ok |-> FALSE, tmp |-> t, done |-> n]
    IN  Bind(Scanf(b, FourD), LAMBDA s1 :
        IF 4 # s1.matches THEN stop(s1, <<>>, 0) ELSE
        Bind(Scanf(s1.b, FourD), LAMBDA s2 :
        IF 4 # s2.matches THEN stop(s2, s1.vals, 1) ELSE
        Bind(Scanf(s2.b, ThreeD), LAMBDA s3 :
        IF 3 # s3.matches THEN stop(s3, s1.vals \o s2.vals, 2) ELSE
        Bind(Scanf(s3.b, FourD), LAMBDA s4 :
        IF 4 # s4.matches THEN stop(s4, s1.vals \o s2.vals \o s3.vals, 3) ELSE
        Bind(Scanf(s4.b, FourD), LAMBDA s5 :
        IF 4 # s5.matches
        THEN stop(s5, s1.vals \o s2.vals \o s3.vals \o s4.vals, 4) ELSE
        Bind(Scanf(s5.b, CommaFourD), LAMBDA s6 :
        IF 5 # s6.matches
        THEN stop(s6, s1.vals \o s2.vals \o s3.vals \o s4.vals \o s5.vals, 5) ELSE
        Bind(ScanLXX64(s6.b), LAMBDA s7 :
        IF ~s7.ok
        THEN stop(s7, s1.vals \o s2.vals \o s3.vals \o s4.vals \o s5.vals
                      \o s6.vals, 6)
        ELSE [b |-> s7.b, ok |-> TRUE,
              tmp |-> s1.vals \o s2.vals \o s3.vals \o s4.vals \o s5.vals
                      \o s6.vals \o <<s7.num>>,
              done |-> 7])))))))

\* the temporaries of a load that stopped early, the unscanned ones as zero
Padded(t) == t \o [i \in 1 .. 24 - Len(t) |-> U32(0)]

\* A LoadScreenConfig that stores what it has scanned even when a later scan
\* fails.
LoadScreenConfig_Partial(d, b) ==
    Bind(ScanScreenConfig(b), LAMBDA s :
        [b |-> s.b, drv |-> Restore(d, Padded(s.tmp)), ret |-> s.ok, done |-> s.done])

\* bool LoadScreenConfig(LineCountingByteSource & bs)
LoadScreenConfig(d, b) ==
    Bind(ScanScreenConfig(b), LAMBDA s :
        IF s.ok THEN [b |-> s.b, drv |-> Restore(d, s.tmp), ret |-> TRUE, done |-> s.done]
        ELSE [b |-> s.b, drv |-> d, ret |-> FALSE, done |-> s.done])

\* void SaveGridWithNextFilename(): m_saveStateIndex++
SaveGridWithNextFilename(d) == [d EXCEPT !.m_saveStateIndex = U32Inc(@)]

----------------------------------------------------------------------------
(* AbstractGUIDriver: the frames of RunHelper.  A frame handles the pending *)
(* SDL events, then calls Update, which may call Super::UpdateGrid.         *)

\* number of frames in one behaviour
MaxFrames == 3
\* number of SDL events handled in one frame
MaxPoll == 1

\* event.button.button: SDL_BUTTON_LEFT and SDL_BUTTON_RIGHT
MouseButtons == {1, 3}

\* the buttons whose OnClick changes the grid as a whole
AdminButtons == {"ClearGrid", "Nuke", "XRay", "Thin", "BGR"}

\* what an event may click: nothing, or one of the buttons
ClickTargets == {"none", "Step", "Run"} \cup AdminButtons

\* a click on the GridRunCheckbox: AbstractCheckbox sets the box to the
\* opposite of IsChecked(), which here is the driver's m_keyboardPaused
ClickGridRunCheckbox(d) == [d EXCEPT !.m_keyboardPaused = ~d.m_keyboardPaused]

\* the driver after OnClick of the button clicked
OnClick(button, d) ==
    IF button = "Step"
    THEN [d EXCEPT !.m_singleStep = TRUE, !.m_keyboardPaused = FALSE]
    ELSE IF button = "Run"
    THEN ClickGridRunCheckbox(d)
    ELSE d

\* the buttons that act on the selected tile
TileButtons == {"ClearTile", "PauseTile"}

\* ClearButton::OnClick: FAIL(INCOMPLETE_CODE) is its only statement, the
\* code that would empty the selected tile is compiled out
ClearButton_OnClick == "INCOMPLETE_CODE"

\* PauseTileButton::OnClick: FAIL(INCOMPLETE_CODE) is its only statement, the
\* code that would enable or disable the selected tile is compiled out
PauseTileButton_OnClick == "INCOMPLETE_CODE"

\* the FAIL code OnClick of a tile button ends with
TileOnClick(button) ==
    IF button = "ClearTile" THEN ClearButton_OnClick ELSE PauseTileButton_OnClick

\* An Update that leaves the mouse out of m_gridPaused.
UpdateBefore_IgnoringMouse(d) ==
    LET stepping == IF d.m_singleStep THEN [d EXCEPT !.m_keyboardPaused = FALSE] ELSE d
    IN  [stepping EXCEPT !.m_gridPaused = stepping.m_keyboardPaused]

\* Update, up to the test of m_gridPaused
UpdateBefore(d) ==
    LET stepping == IF d.m_singleStep THEN [d EXCEPT !.m_keyboardPaused = FALSE] ELSE d
    IN  [stepping EXCEPT !.m_gridPaused = stepping.m_keyboardPaused \/ stepping.m_mousePaused]

\* if (!m_gridPaused): whether this Update calls Super::UpdateGrid
UpdatesGrid(d) == ~UpdateBefore(d).m_gridPaused

\* An Update that does not pause again after a single step.
UpdateAfter_StepStaysPending(d) == d

\* Update, after Super::UpdateGrid has returned
UpdateAfter(d) ==
    IF d.m_singleStep
    THEN [d EXCEPT !.m_keyboardPaused = TRUE, !.m_singleStep = FALSE]
    ELSE d

\* A dispatch that can run at any point of the frame.
Dispatching_Anywhere == loop.pc # "start"

\* the while (SDL_PollEvent(&event)) loop is where events are dispatched
Dispatching == loop.pc = "events"

NoUpdate == [mouseDown |-> FALSE, keyboardPaused |-> FALSE, singleStep |-> FALSE,
             grid |-> FALSE]

NoAdmin == [op |-> "none", pc |-> "none", before |-> 0]

\* before RunHelper is called
LoopStart == [pc |-> "start", mouseButtonsDown |-> {}, polled |-> 0, frames |-> 0]

HistStart ==
    [command |-> "none", updates |-> 0, cleanUpdates |-> 0, gridUpdates |-> 0,
     totalGrid |-> 0, update |-> NoUpdate, admin |-> NoAdmin]

GuiIdle ==
    /\ drv = NewDriver
    /\ preDrv = NewDriver
    /\ saved = NewDriver
    /\ intact = TRUE
    /\ loop = LoopStart
    /\ fhist = HistStart

----------------------------------------------------------------------------
(* Tile and CacheSync: the workers of a two by two grid of tiles.  A tile   *)
(* owns one interior cell at each edge and corner that faces a neighbour,   *)
(* and holds as halo cells the copies of its neighbours' facing cells.      *)

\* retries of a refused lock before the scheduling attempt is abandoned
MaxRetries == 1
\* scheduling attempts, of all tiles together, in one behaviour
MaxAttempts == 3

TileGrid == (0 .. 1) \X (0 .. 1)

Dirs == {"N", "NE", "E", "SE", "S", "SW", "W", "NW"}

Offset(d) ==
    CASE d = "N" -> <<0, 0 - 1>>
      [] d = "NE" -> <<1, 0 - 1>>
      [] d = "E" -> <<1, 0>>
      [] d = "SE" -> <<1, 1>>
      [] d = "S" -> <<0, 1>>
      [] d = "SW" -> <<0 - 1, 1>>
      [] d = "W" -> <<0 - 1, 0>>
      [] d = "NW" -> <<0 - 1, 0 - 1>>

DirOf(off) == CHOOSE d \in Dirs : Offset(d) = off

Opposite(d) == DirOf(<<0 - Offset(d)[1], 0 - Offset(d)[2]>>)

Neighbor(t, d) == PointAdd(t, Offset(d))

IsConnected(t, d) == Neighbor(t, d) \in TileGrid

\* the sites an event is centred on: the east edge of tile t, or a corner of
\* it, that faces its neighbour in direction d
EventSites(t) ==
    {d \in Dirs : IsConnected(t, d) /\ (d = "E" \/ Offset(d)[1] * Offset(d)[2] # 0)}

\* the neighbours whose halo a window at the edge or corner d overlaps
WindowDirs(t, d) ==
    {e \in Dirs : /\ IsConnected(t, e)
                  /\ \A i \in 1 .. 2 : Offset(e)[i] \in {0, Offset(d)[i]}}

\* the cell of the neighbour in direction e that lies in a window at d
FacingCell(d, e) ==
    DirOf(<<Offset(d)[1] - 2 * Offset(e)[1], Offset(d)[2] - 2 * Offset(e)[2]>>)

\* the halo cells of tile t that a window at d covers
HaloCells(t, d) == {<<Neighbor(t, e), FacingCell(d, e)>> : e \in WindowDirs(t, d)}

\* the interior cells of tile t that a neighbour mirrors, named
\* <<owning tile, edge or corner>>
InteriorCells(t) == {<<t, d>> : d \in {e \in Dirs : IsConnected(t, e)}}

\* the atom storage of tile t: its interior cells and its halo cells
Storage(t) ==
    InteriorCells(t)
    \cup UNION {HaloCells(t, d) : d \in {e \in Dirs : IsConnected(t, e)}}

\* An order that walks the directions clockwise.
LockOrder_Clockwise == <<"N", "NE", "E", "SE", "S", "SW", "W", "NW">>

\* the fixed total order over the eight directions, the same on every tile
LockOrder == <<"N", "S", "E", "W", "NE", "SW", "NW", "SE">>

\* the locks a window at d needs, in the order they are acquired
Needed(t, d) == SelectSeq(LockOrder, LAMBDA e : e \in WindowDirs(t, d))

ChannelStates == {"Idle", "Locked", "PendingPush", "Acknowledged"}

\* tile t holds the soft lock of its connection in direction e
Holds(t, e) == chan[t][e] # "Idle"

\* the neighbour grants the lock unless it holds the connection itself
Granted(t, e) == ~Holds(Neighbor(t, e), Opposite(e))

IdleWorker ==
    [pc |-> "idle", site |-> "none", needed |-> <<>>, got |-> 0, retries |-> 0,
     reads |-> {}, wrote |-> {}]

\* the lock the worker of t is trying to acquire
NextLock(t) == tiles[t].needed[tiles[t].got + 1]

\* A behaviour that also writes the halo cells of its window.
BehaviorWrites_Halo(t, d) == {<<t, d>>} \cup HaloCells(t, d)

\* the cells of its tile's storage that the behaviour of an event modifies
BehaviorWrites(t, d) == {<<t, d>>}

\* A push that sends the value the cell had before the event.
PushedValue_Stale(t, d) == atoms[t][<<t, d>>] - 1

\* the copy of a modified interior cell that is pushed to a neighbour
PushedValue(t, d) == atoms[t][<<t, d>>]

TilesIdle ==
    /\ chan = [t \in TileGrid |-> [d \in Dirs |-> "Idle"]]
    /\ tiles = [t \in TileGrid |-> IdleWorker]
    /\ atoms = [t \in TileGrid |-> [c \in Storage(t) |-> 0]]
    /\ acked = [t \in TileGrid |-> [c \in Storage(t) \ InteriorCells(t) |-> 0]]

----------------------------------------------------------------------------
(* The public calls as actions *)

Enter == [bs EXCEPT !.fail = "none"]

Call(op, after, value, out) ==
    /\ nops < MaxOps
    /\ nops' = nops + 1
    /\ lastOp' = op
    /\ pre' = Enter
    /\ preSink' = sink
    /\ bs' = after
    /\ ret' = value
    /\ sink' = out
    /\ failure' = after.fail
    /\ UNCHANGED <<input, el, loader, ehist, target>>
    /\ UNCHANGED sharkVars
    /\ UNCHANGED guiVars
    /\ UNCHANGED tileVars

DoRead == Call("Read", Read(Enter), Read(Enter).m_lastRead, sink)

DoUnread == Call("Unread", Unread(Enter), 0, sink)

DoPeek == Call("Peek", Peek(Enter), PeekValue(Enter), sink)

DoReset == Call("Reset", Reset(Enter), 0, sink)

DoReadNegativeLex32 ==
    Call("ReadNegativeLex32", ReadNegativeLex32(Enter).b,
         ReadNegativeLex32(Enter).ret, sink)

DoScanIdentifier ==
    Call("ScanIdentifier", ScanIdentifier(Enter, sink).b,
         ScanIdentifier(Enter, sink).ret, ScanIdentifier(Enter, sink).sink)

DoScanCamelIdentifier ==
    Call("ScanCamelIdentifier", ScanCamelIdentifier(Enter, sink).b,
         ScanCamelIdentifier(Enter, sink).ret, ScanCamelIdentifier(Enter, sink).sink)

DoScanDoubleQuotedString ==
    Call("ScanDoubleQuotedString", ScanDoubleQuotedString(Enter, sink).b,
         ScanDoubleQuotedString(Enter, sink).ret,
         ScanDoubleQuotedString(Enter, sink).sink)

----------------------------------------------------------------------------
(* Inputs *)

RECURSIVE SeqsUpTo(_, _)
SeqsUpTo(S, n) ==
    IF n = 0 THEN {<<>>}
    ELSE LET shorter == SeqsUpTo(S, n - 1)
         IN  shorter \cup {Append(s, c) : s \in {t \in shorter : Len(t) = n - 1}, c \in S}

SourceNew(inputs) ==
    /\ input \in inputs
    /\ bs = NewByteSource
    /\ sink = <<>>
    /\ lastOp = "new"
    /\ ret = 0
    /\ pre = NewByteSource
    /\ preSink = <<>>
    /\ nops = 0

InitWith(inputs) ==
    /\ SourceNew(inputs)
    /\ ElementsNew
    /\ SharkIdle
    /\ GuiIdle
    /\ TilesIdle

----------------------------------------------------------------------------
(* Specification of the character-level interface *)

RWBytes == {Ord("a"), Ord("n")}

InitRW == InitWith(SeqsUpTo(RWBytes, MaxLen))

NextRW == DoRead \/ DoUnread \/ DoPeek \/ DoReset

SpecRW == InitRW /\ [][NextRW]_vars

----------------------------------------------------------------------------
(* Reading the call trace of the current epoch (since construction/Reset) *)

Kind(e) == e[1]
Val(e) == e[2]

Events(tr, kind) == {i \in 1..Len(tr) : Kind(tr[i]) = kind}

IsEvent(e, kind) == Kind(e) = kind

\* the values of the events of one kind, in order
ValuesOf(tr, keep(_)) ==
    LET sel == SelectSeq([i \in 1..Len(tr) |-> <<i, tr[i]>>], LAMBDA p : keep(p[1]))
    IN  [k \in 1..Len(sel) |-> Val(sel[k][2])]

\* index of the last Read or Unread event before event i, or 0
PrevRU(tr, i) ==
    LET c == {j \in 1..(i - 1) : Kind(tr[j]) \in {"Read", "Unread"}}
    IN  IF c = {} THEN 0 ELSE CHOOSE j \in c : \A k \in c : k <= j

\* index of the last Read event before event i, or 0
PrevRead(tr, i) ==
    LET c == {j \in 1..(i - 1) : Kind(tr[j]) = "Read"}
    IN  IF c = {} THEN 0 ELSE CHOOSE j \in c : \A k \in c : k <= j

\* event i is a Read() that follows an Unread()
Redelivered(tr, i) ==
    /\ Kind(tr[i]) = "Read"
    /\ PrevRU(tr, i) # 0
    /\ Kind(tr[PrevRU(tr, i)]) = "Unread"

NumReadByte(b) == Cardinality(Events(b.trace, "ReadByte"))

\* C7: a Peek() that does not fail returns what the next Read() returns and
\* leaves GetBytesRead() as it was; consecutive Peek() calls return the same
\* value and call ReadByte() at most once between them.
C7_PeekDoesNotConsume ==
    [][ /\ (lastOp' = "Peek" /\ bs'.fail = "none") =>
               /\ ret' = Read(bs').m_lastRead
               /\ GetBytesRead(bs') = GetBytesRead(pre')
               /\ NumReadByte(bs') <= NumReadByte(pre') + 1
        /\ (lastOp = "Peek" /\ lastOp' = "Read") => ret' = ret
        /\ (lastOp = "Peek" /\ lastOp' = "Peek") =>
               /\ ret' = ret
               /\ NumReadByte(bs') = NumReadByte(bs) ]_vars

\* a second consecutive Peek() has returned a byte of the input
C7_Witness ==
    /\ lastOp = "Peek"
    /\ pre.m_unread
    /\ ret >= 0
    /\ NumReadByte(bs) = 1

Max(a, b) == IF a >= b THEN a ELSE b

\* C8: GetBytesRead() is the number of bytes Read() has delivered since
\* construction or Reset that are not currently pushed back.
C8_BytesReadCountsDelivered ==
    GetBytesRead(bs) =
        U32(Max(0, Cardinality(Events(bs.trace, "Read"))
                     - Cardinality(Events(bs.trace, "Unread"))))

----------------------------------------------------------------------------
(* Specification of the Lex-negative reader *)

LexBytes == {Ord("n"), Ord("0"), Ord("1"), Ord("2"), Ord("5")}

Chars(digits) == [i \in 1..Len(digits) |-> Ord("0") + digits[i]]

\* 'n', then the Lex encoding of a nine- or ten-digit magnitude
NegLex(countPrefix, digits) == <<Ord("n")>> \o Chars(countPrefix) \o Chars(digits)

\* magnitudes around the s32 and u32 limits
LimitInputs ==
    { NegLex(<<9, 1, 9>>,    <<9, 9, 9, 9, 9, 9, 9, 9, 9>>),
      NegLex(<<9, 2, 1, 0>>, <<2, 1, 4, 7, 4, 8, 3, 6, 4, 7>>),
      NegLex(<<9, 2, 1, 0>>, <<2, 1, 4, 7, 4, 8, 3, 6, 4, 8>>),
      NegLex(<<9, 2, 1, 0>>, <<4, 2, 9, 4, 9, 6, 7, 2, 9, 5>>),
      NegLex(<<9, 2, 1, 0>>, <<0, 0, 0, 0, 0, 0, 0, 0, 0, 7>>),
      NegLex(<<9, 2, 1, 0>>, <<2, 1, 4, 7, 4, 8, 3, 6, 4>>) }

InitLex == InitWith(SeqsUpTo(LexBytes, MaxLen) \cup LimitInputs)

NextLex == DoReadNegativeLex32 \/ DoRead \/ DoPeek \/ DoUnread

SpecLex == InitLex /\ [][NextLex]_vars

----------------------------------------------------------------------------
(* What the caller sees of a source, and the Lex grammar, stated on the    *)
(* character sequence itself *)

\* the characters the coming Read() calls deliver, up to end of input
Stream(b) ==
    (IF b.m_unread THEN <<b.m_lastRead>> ELSE <<>>)
        \o SubSeq(input, b.pos + 1, Len(input))

\* the character the next Read() delivers
Upcoming(b) == IF Stream(b) = <<>> THEN EOF ELSE Head(Stream(b))

RECURSIVE StripZeros(_)
StripZeros(digs) ==
    IF digs # <<>> /\ Head(digs) = 0 THEN StripZeros(Tail(digs)) ELSE digs

RECURSIVE DecValue(_)
\* the number a sequence of decimal digits denotes (at most 2^31 - 1)
DecValue(digs) ==
    IF digs = <<>> THEN 0
    ELSE 10 * DecValue(SubSeq(digs, 1, Len(digs) - 1)) + digs[Len(digs)]

\* digit sequences of equal length, compared as numbers
NumLeq(a, b) ==
    \/ a = b
    \/ \E i \in 1..Len(a) :
          /\ a[i] < b[i]
          /\ \A j \in 1..(i - 1) : a[j] = b[j]

\* the digits denote a number of at most 2^31 - 1
FitsS32(digs) ==
    LET sig == StripZeros(digs)
    IN  \/ Len(sig) < 10
        \/ Len(sig) = 10 /\ NumLeq(sig, <<2, 1, 4, 7, 4, 8, 3, 6, 4, 7>>)

NoToken == [ok |-> FALSE, len |-> 0, digits |-> <<>>]

RECURSIVE LexToken(_)
\* the well-formed Lex token at the front of s: its length and its digits
LexToken(s) ==
    IF s = <<>> \/ ~IsDigit(Head(s)) THEN NoToken
    ELSE LET inner == LexToken(Tail(s))
             hdr == IF Head(s) = Ord("9")
                    THEN [ok |-> inner.ok /\ FitsS32(inner.digits),
                          len |-> 1 + inner.len,
                          count |-> IF inner.ok /\ FitsS32(inner.digits)
                                    THEN DecValue(StripZeros(inner.digits)) ELSE 0]
                    ELSE [ok |-> TRUE, len |-> 1, count |-> Head(s) - Ord("0")]
             body == SubSeq(s, hdr.len + 1, hdr.len + hdr.count)
         IN  IF \/ ~hdr.ok
                \/ hdr.count = 0
                \/ Len(s) < hdr.len + hdr.count
                \/ \E i \in 1..Len(body) : ~IsDigit(body[i])
             THEN NoToken
             ELSE [ok |-> TRUE, len |-> hdr.len + hdr.count,
                   digits |-> [i \in 1..Len(body) |-> body[i] - Ord("0")]]

\* the magnitude after an 'n' at the front of the source, before the last call
PreToken == IF Stream(pre) = <<>> THEN NoToken ELSE LexToken(Tail(Stream(pre)))

\* an 'n' and a well-formed magnitude m, 1 <= m <= 2^31 - 1, were in front
PreNegative ==
    /\ Upcoming(pre) = Ord("n")
    /\ PreToken.ok
    /\ FitsS32(PreToken.digits)
    /\ StripZeros(PreToken.digits) # <<>>

\* C1: ReadNegativeLex32 called when the next character is not 'n' (or at
\* end of input) returns 0, leaves GetBytesRead() as it was, and the next
\* Read() returns that same character.
C1_NoPrefixLeavesSource ==
    (lastOp = "ReadNegativeLex32" /\ Upcoming(pre) # Ord("n")) =>
        /\ ret = 0
        /\ bs.fail = "none"
        /\ GetBytesRead(bs) = GetBytesRead(pre)
        /\ Read(bs).m_lastRead = Upcoming(pre)

\* ReadNegativeLex32 was called in front of a character other than 'n'
C1_Witness ==
    /\ lastOp = "ReadNegativeLex32"
    /\ Upcoming(pre) = Ord("5")
    /\ ret = 0

----------------------------------------------------------------------------
(* Specification of Element type allocation *)

InitElement == InitWith({<<>>})

NextElement == DoAllocateType \/ DoGetType \/ DoGetDefaultAtom \/ DoTYPE

SpecElement == InitElement /\ [][NextElement]_vars

\* the Element was built with the explicit-type constructor
TypedAtConstruction(name) == name = "Empty"

\* C4: over any sequence of AllocateType calls on one Element the loader is
\* asked at most once, GetType() after every later call is what it was after
\* the first, and an Element built with an explicit type never asks the loader
\* and keeps that type.
C4_AllocateTypeIdempotent ==
    \A name \in Elems :
        /\ ehist[name].allocCalls <= 1
        /\ ehist[name].calls >= 1 =>
               /\ GetType(el[name]).fail = "none"
               /\ GetType(el[name]).value = ehist[name].firstType
        /\ TypedAtConstruction(name) =>
               /\ ehist[name].allocCalls = 0
               /\ GetType(el[name]) = [fail |-> "none", value |-> EmptyType]

\* AllocateType has been called three times on the second Element to get a type
C4_Witness ==
    /\ lastOp = "AllocateType"
    /\ ehist[target].calls = 3
    /\ ehist[target].allocCalls = 1
    /\ el[target].m_type = 2

GetterOps == {"GetType", "GetDefaultAtom", "TYPE"}

\* C5 as stated: GetType, GetDefaultAtom and TYPE fail with ILLEGAL_STATE on
\* an Element for which AllocateType has not run, and never after it has.
C5_FailsBeforeAllocate ==
    lastOp \in GetterOps =>
        (failure = "ILLEGAL_STATE" <=> ehist[target].calls = 0)

\* C5 amended: they fail with ILLEGAL_STATE exactly on an Element built
\* without an explicit type for which AllocateType has not run.
C5_FailsBeforeAllocateUnlessTyped ==
    lastOp \in GetterOps =>
        /\ failure = "ILLEGAL_STATE" <=>
               (ehist[target].calls = 0 /\ ~TypedAtConstruction(target))
        /\ (failure = "none" /\ lastOp # "GetDefaultAtom") => ret = el[target].m_type
        /\ failure \in {"none", "ILLEGAL_STATE"}

\* TYPE() failed on the Shark before its type was allocated
C5_Witness ==
    /\ lastOp = "TYPE"
    /\ ehist["Shark"].calls = 0
    /\ failure = "ILLEGAL_STATE"

----------------------------------------------------------------------------
(* Specification of the double-quoted string scanner *)

QuoteBytes == {Ord("\""), Ord("%"), Ord("4"), Ord("g"), Ord("\n")}

\* parts of a string body: plain characters, escapes, broken escapes
BodyParts ==
    { <<>>, <<Ord("g")>>, <<Ord(" ")>>,
      <<Ord("%"), Ord("4"), Ord("A")>>, <<Ord("%"), Ord("f"), Ord("F")>>,
      <<Ord("%"), Ord("2"), Ord("5")>>, <<Ord("%"), Ord("0"), Ord("0")>>,
      <<Ord("%"), Ord("4"), Ord("g")>>, <<Ord("%"), Ord("Z"), Ord("4")>>,
      <<Ord("%"), Ord("a")>> }

\* leading white space, a quote, two body parts, an ending and what follows
QuotedInputs ==
    { lead \o <<Ord("\"")>> \o p \o q \o ending \o rest :
        lead \in {<<>>, <<Ord(" "), Ord("\t")>>},
        p \in BodyParts, q \in BodyParts,
        ending \in {<<Ord("\"")>>, <<>>, <<Ord("\n")>>},
        rest \in {<<>>, <<Ord("g")>>} }

InitQuote == InitWith(SeqsUpTo(QuoteBytes, MaxLen) \cup QuotedInputs)

NextQuote == DoScanDoubleQuotedString \/ DoRead \/ DoPeek

SpecQuote == InitQuote /\ [][NextQuote]_vars

\* the bytes the source has not handed out yet
Remaining(b) == SubSeq(input, b.pos + 1, Len(input))

RECURSIVE SkipLeading(_, _)
\* s without its leading characters of the set
SkipLeading(s, set) ==
    IF s # <<>> /\ Head(s) \in set THEN SkipLeading(Tail(s), set) ELSE s

IsHex(ch) ==
    \/ ch \in Ord("0")..Ord("9")
    \/ ch \in Ord("a")..Ord("f")
    \/ ch \in Ord("A")..Ord("F")

HexValue(ch) ==
    IF ch \in Ord("0")..Ord("9") THEN ch - Ord("0")
    ELSE IF ch \in Ord("a")..Ord("f") THEN ch - Ord("a") + 10
    ELSE ch - Ord("A") + 10

RECURSIVE Quoted(_)
\* The text t after an opening quote, read as a %XX-escaped body:
\* why  = "closed" when a closing quote ends a well-formed body, "end" when
\*        end of input or a newline comes first, "escape" when a character
\*        after a '%' is no hex digit;
\* used = the characters up to and including the closing quote, or up to
\*        and excluding the offending one; text = the decoded characters.
Quoted(t) ==
    IF t = <<>> \/ Head(t) = Ord("\n") THEN [why |-> "end", used |-> 0, text |-> <<>>]
    ELSE IF Head(t) = Ord("\"") THEN [why |-> "closed", used |-> 1, text |-> <<>>]
    ELSE IF Head(t) # Ord("%")
    THEN LET q == Quoted(Tail(t))
         IN  [why |-> q.why, used |-> 1 + q.used, text |-> <<Head(t)>> \o q.text]
    ELSE IF Len(t) >= 3 /\ IsHex(t[2]) /\ IsHex(t[3])
    THEN LET q == Quoted(SubSeq(t, 4, Len(t)))
         IN  [why |-> q.why, used |-> 3 + q.used,
              text |-> <<16 * HexValue(t[2]) + HexValue(t[3])>> \o q.text]
    ELSE LET n == IF Len(t) >= 2 /\ IsHex(t[2]) THEN 2 ELSE 1
         IN  [why |-> IF Len(t) = n \/ t[n + 1] = Ord("\n") THEN "end" ELSE "escape",
              used |-> n, text |-> <<>>]

\* what was in front of the source when the last call started, without
\* its leading white space
PreText == SkipLeading(Stream(pre), Whitespace)

PreOpened == PreText # <<>> /\ Head(PreText) = Ord("\"")

PreQuoted == Quoted(Tail(PreText))

\* position in PreText of the character a failing scan stops at
PreStop == IF PreOpened THEN PreQuoted.used + 2 ELSE 1

U32Plus(x, n) ==
    LET lo == x[2] + n
    IN  <<(x[1] + (lo \div Half)) % Half, lo % Half>>

\* C9: on optional white space, a quote, a body without newline whose every
\* '%' is followed by two hex digits, and a closing quote, the scan returns
\* true, appends the decoded body to the sink, and consumes the source
\* through the closing quote and no further.
C9_DecodesEscapedString ==
    (/\ lastOp = "ScanDoubleQuotedString"
     /\ PreOpened
     /\ PreQuoted.why = "closed") =>
        /\ ret = TRUE
        /\ bs.fail = "none"
        /\ sink = preSink \o PreQuoted.text
        /\ ~bs.m_unread
        /\ Remaining(bs) = SubSeq(PreText, PreQuoted.used + 2, Len(PreText))
        /\ GetBytesRead(bs) =
               U32Plus(GetBytesRead(pre),
                       (Len(Stream(pre)) - Len(PreText)) + 1 + PreQuoted.used)

\* a string with an upper-case escape after white space was decoded, and
\* text follows the closing quote
C9_Witness ==
    /\ lastOp = "ScanDoubleQuotedString"
    /\ ret = TRUE
    /\ Len(Stream(pre)) > Len(PreText)
    /\ Ord("F") \in {PreText[i] : i \in 1..Len(PreText)}
    /\ 255 \in {sink[i] : i \in 1..Len(sink)}
    /\ Remaining(bs) # <<>>

\* C10: the scan returns false exactly when the first character after the
\* white space is not a quote, when end of input or a newline comes before
\* the closing quote, or when a character after a '%' is no hex digit; the
\* character it stopped at, and only that one, is then pushed back.
C10_FailsAndPushesBackOne ==
    lastOp = "ScanDoubleQuotedString" =>
        /\ ret = FALSE <=> (~PreOpened \/ PreQuoted.why \in {"end", "escape"})
        /\ ret = FALSE =>
               LET stop == IF PreStop > Len(PreText) THEN EOF ELSE PreText[PreStop]
               IN  /\ bs.fail = "none"
                   /\ bs.m_unread
                   /\ Read(bs).m_lastRead = stop
                   /\ Remaining(bs) = SubSeq(PreText, PreStop + 1, Len(PreText))

\* the scan stopped at a quote in the second position of an escape
C10_Witness ==
    /\ lastOp = "ScanDoubleQuotedString"
    /\ ret = FALSE
    /\ PreOpened
    /\ PreQuoted.why = "escape"
    /\ PreStop <= Len(PreText)
    /\ PreText[PreStop] = Ord("\"")
    /\ PreText[PreStop - 1] # Ord("%")

----------------------------------------------------------------------------
(* Specification of the identifier scanners *)

IdentBytes == {Ord("a"), Ord("Z"), Ord("_"), Ord("5"), Ord(" ")}

InitIdent == InitWith(SeqsUpTo(IdentBytes, MaxLen))

NextIdent == DoScanIdentifier \/ DoScanCamelIdentifier \/ DoPeek

SpecIdent == InitIdent /\ [][NextIdent]_vars

RECURSIVE RunOf(_, _)
\* the longest prefix of s made of characters of the set
RunOf(s, set) ==
    IF s # <<>> /\ Head(s) \in set THEN <<Head(s)>> \o RunOf(Tail(s), set) ELSE <<>>

\* C11: ScanIdentifier succeeds exactly when the first character after the
\* white space is a letter or an underscore and then appends the longest run
\* of [_a-zA-Z0-9]; ScanCamelIdentifier succeeds exactly when it is an
\* upper-case letter and then appends the longest run of [a-zA-Z0-9]; a scan
\* that fails appends nothing.
C11_IdentifierScans ==
    LET first == IF PreText = <<>> THEN EOF ELSE Head(PreText)
        lower == Ord("a")..Ord("z")
        upper == Ord("A")..Ord("Z")
        digit == Ord("0")..Ord("9")
    IN  /\ lastOp = "ScanIdentifier" =>
              /\ ret = TRUE <=> first \in lower \cup upper \cup {Ord("_")}
              /\ ret = TRUE =>
                     sink = preSink \o RunOf(PreText, lower \cup upper \cup digit \cup {Ord("_")})
              /\ ret = FALSE => sink = preSink
        /\ lastOp = "ScanCamelIdentifier" =>
              /\ ret = TRUE <=> first \in upper
              /\ ret = TRUE =>
                     sink = preSink \o RunOf(PreText, lower \cup upper \cup digit)
              /\ ret = FALSE => sink = preSink

\* a two-character identifier ending in a digit was scanned after white space
C11_Witness ==
    /\ lastOp = "ScanIdentifier"
    /\ ret = TRUE
    /\ Len(Stream(pre)) > Len(PreText)
    /\ Len(sink) = Len(preSink) + 2
    /\ sink[Len(sink)] = Ord("5")

----------------------------------------------------------------------------
(* Specification of Shark events on the grid *)

Middle == <<1, 1>>

\* the sites that start with any of Empty, Fish and Shark: Middle and its
\* four neighbours; every other site starts Empty
Cross == {s \in Sites : GetManhattanLength(PointAdd(s, <<0 - 1, 0 - 1>>)) <= 1}

\* birth age, current age and energy of the Sharks a behaviour starts with
InitSharks ==
    {WaPatAtom("Shark", INITIAL_DEFAULT_BIRTH_AGE, s[1], s[2]) :
        s \in {<<0, 0>>, <<0, DEFAULT_ENERGY_PER_FISH>>,
               <<INITIAL_DEFAULT_BIRTH_AGE - 1, 1>>,
               <<INITIAL_DEFAULT_BIRTH_AGE, MAX_SHARK_ENERGY>>}}

InitGrids ==
    {[s \in Sites |->
        IF s \notin Cross THEN EmptyAtom
        ELSE IF lay[s] = "Shark" THEN shark
        ELSE IF lay[s] = "Fish" THEN FishAtom
        ELSE EmptyAtom] :
       lay \in {l \in [Cross -> {"Empty", "Fish", "Shark"}] :
                   \E s \in Cross : l[s] = "Shark"},
       shark \in InitSharks}

InitShark ==
    /\ SourceNew({<<>>})
    /\ ElementsNew
    /\ grid \in InitGrids
    /\ m_sharkEnergyPerFish = DEFAULT_ENERGY_PER_FISH
    /\ event = NoEvent
    /\ nevents = 0
    /\ lineage = NoLineage
    /\ GuiIdle
    /\ TilesIdle

\* an event on a site that holds a Shark, with one outcome of its OneIn calls
SharkEvent(center, draws) ==
    LET after == Behavior(grid, center, m_sharkEnergyPerFish, draws)
    IN  /\ grid' = after.grid
        /\ event' = [center |-> center,
                     log |-> after.log,
                     fishRel |-> after.fishRel,
                     fishCount |-> after.fishCount,
                     emptyRel |-> after.emptyRel,
                     emptyCount |-> after.emptyCount,
                     odds |-> after.odds,
                     draws |-> draws, pre |-> grid]
        /\ nevents' = nevents + 1
        /\ UNCHANGED <<m_sharkEnergyPerFish, input, bs, sink, lastOp, ret, pre,
                       preSink, nops, failure, el, loader, ehist, target>>

DoBehavior ==
    /\ nevents < MaxEvents
    /\ \E center \in Sites :
        /\ grid[center].type = "Shark"
        /\ \E draws \in Outcomes(grid, center, m_sharkEnergyPerFish) :
              SharkEvent(center, draws)
    /\ UNCHANGED lineage
    /\ UNCHANGED guiVars
    /\ UNCHANGED tileVars

NextShark == DoBehavior

SpecShark == InitShark /\ [][NextShark]_vars

\* the offsets at Manhattan distance 1
Adjacent == {rel \in (0 - 1 .. 1) \X (0 - 1 .. 1) : GetManhattanLength(rel) = 1}

\* the live distance-1 neighbours of `center` holding an atom of `type`
Candidates(g, center, type) ==
    {rel \in Adjacent :
        /\ PointAdd(center, rel) \in Sites
        /\ g[PointAdd(center, rel)].type = type}

\* the last event ran past the starvation test
Scanned == nevents > 0 /\ event.pre[event.center].energy > 0

\* C12: over all outcomes of the OneIn calls of an event, every live
\* distance-1 Fish neighbour is the final fishRel in exactly 1/N of them, N
\* the number of such neighbours, and likewise every Empty neighbour the final
\* emptyRel, however the two kinds are interleaved in the scan.
C12_ReservoirUniform ==
    Scanned =>
        LET outs == Outcomes(event.pre, event.center, m_sharkEnergyPerFish)
            run == [d \in outs |->
                      Behavior(event.pre, event.center, m_sharkEnergyPerFish, d)]
            fish == Candidates(event.pre, event.center, "Fish")
            empty == Candidates(event.pre, event.center, "Empty")
        IN  /\ \A rel \in fish :
                Cardinality({d \in outs : run[d].fishRel = rel}) * Cardinality(fish)
                    = Cardinality(outs)
            /\ \A rel \in empty :
                Cardinality({d \in outs : run[d].emptyRel = rel}) * Cardinality(empty)
                    = Cardinality(outs)

\* an event with two Fish and two Empty neighbours, interleaved in the scan,
\* in which a later candidate replaced an earlier one
C12_Witness ==
    /\ Scanned
    /\ event.fishCount = 2
    /\ event.emptyCount = 2
    /\ event.pre[PointAdd(event.center, <<0 - 1, 0>>)].type = "Fish"
    /\ event.pre[PointAdd(event.center, <<0, 0 - 1>>)].type = "Empty"
    /\ event.pre[PointAdd(event.center, <<0, 1>>)].type = "Fish"
    /\ event.fishRel = <<0, 1>>
    /\ event.emptyRel = <<1, 0>>

\* C13: in one event every GetRelativeAtom and SetRelativeAtom on an offset
\* other than the centre comes after IsLiveSite answered true for that offset,
\* and the offset the Shark is written to was read earlier in the event as
\* Fish when a Fish neighbour was there to eat, as Empty otherwise.
C13_OnlyLiveSites ==
    nevents > 0 =>
        LET log == event.log
            eating == Candidates(event.pre, event.center, "Fish") # {}
        IN  \A i \in 1 .. Len(log) :
                (log[i][1] \in {"GetRelativeAtom", "SetRelativeAtom"} /\ log[i][2] # Origin)
                    => /\ \E j \in 1 .. i - 1 : log[j] = <<"IsLiveSite", log[i][2], "live">>
                       /\ log[i][1] = "SetRelativeAtom"
                            => \E j \in 1 .. i - 1 :
                                  log[j] = <<"GetRelativeAtom", log[i][2],
                                             IF eating THEN "Fish" ELSE "Empty">>

\* a Shark at the edge of the grid ate: one offset was not live, and the
\* Shark was written to a neighbour
C13_Witness ==
    /\ nevents > 0
    /\ \E i \in 1 .. Len(event.log) :
          event.log[i][1] = "IsLiveSite" /\ event.log[i][3] = "dead"
    /\ \E i \in 1 .. Len(event.log) :
          event.log[i][1] = "SetRelativeAtom" /\ event.log[i][3] = "Shark"
    /\ event.fishCount > 0

\* the offsets the last event wrote with `call`
Written(call) ==
    {event.log[i][2] : i \in {k \in 1 .. Len(event.log) : event.log[k][1] = call}}

\* C14: one event writes the centre and at most one more site, which is at
\* Manhattan distance exactly 1 from the centre; every other site of the grid
\* holds afterwards what it held before.
C14_WritesCenterAndOneNeighbor ==
    nevents > 0 =>
        /\ Written("SetCenterAtom") \subseteq {Origin}
        /\ Cardinality(Written("SetRelativeAtom")) <= 1
        /\ \A rel \in Written("SetRelativeAtom") : GetManhattanLength(rel) = 1
        /\ Cardinality({i \in 1 .. Len(event.log) :
                           event.log[i][1] = "SetRelativeAtom"}) <= 1
        /\ \A s \in Sites :
              grid[s] # event.pre[s]
                  => \/ s = event.center
                     \/ \E rel \in Written("SetRelativeAtom") :
                           s = PointAdd(event.center, rel)

\* a Shark moved while another site two steps away held a Fish that stayed
C14_Witness ==
    /\ nevents > 0
    /\ Cardinality(Written("SetRelativeAtom")) = 1
    /\ grid[event.center] # event.pre[event.center]
    /\ \E s \in Sites :
          /\ GetManhattanLength(<<s[1] - event.center[1], s[2] - event.center[2]>>) = 2
          /\ event.pre[s].type = "Fish"
          /\ grid[s] = event.pre[s]

----------------------------------------------------------------------------
(* Specification of saving and loading the screen configuration *)

\* a driver that ran with --run, was resized, paused by the keyboard and
\* saved twelve grids
RunningDriver ==
    [NewDriver EXCEPT
        !.m_startPaused = FALSE, !.m_thisUpdateIsEpoch = TRUE, !.m_bigText = TRUE,
        !.m_thisEpochAEPS = U32(300), !.m_captureScreenshots = TRUE,
        !.m_saveStateIndex = U32(12), !.m_epochSaveStateIndex = U32(3),
        !.m_keyboardPaused = TRUE, !.m_mousePaused = TRUE, !.m_gridPaused = TRUE,
        !.m_reinitRequested = TRUE, !.m_renderStats = TRUE, !.m_batchMode = TRUE,
        !.m_screenWidth = U32(800), !.m_screenHeight = U32(600),
        !.m_desiredScreenWidth = 800, !.m_desiredScreenHeight = 600,
        !.m_screenResizable = FALSE,
        !.AER = 1234567, !.RecentAER = 2500000, !.OverheadPercent = 12345678,
        !.AEPSPerFrame = U32(10), !.MsSpentRunning = U32(70000)]

\* a driver with a step pending while a mouse button is held
SteppingDriver ==
    [NewDriver EXCEPT
        !.m_singleStep = TRUE, !.m_mousePaused = TRUE, !.m_gridPaused = TRUE,
        !.m_saveStateIndex = U32(1), !.m_thisEpochAEPS = U32(1000000000),
        !.AER = 999, !.MsSpentRunning = U32(26)]

Drivers == {NewDriver, RunningDriver, SteppingDriver}

\* a driver, and a configuration file saved by an earlier run
InitConfig ==
    /\ SourceNew({<<>>} \cup {SaveScreenConfig(d) : d \in Drivers})
    /\ input # <<>>
    /\ ElementsNew
    /\ SharkIdle
    /\ TilesIdle
    /\ drv \in Drivers
    /\ preDrv = drv
    /\ saved \in {d \in Drivers : SaveScreenConfig(d) = input}
    /\ intact = TRUE
    /\ loop = LoopStart
    /\ fhist = HistStart

\* a call on the driver or a change of the file, with the histories it leaves
ConfigStep(op, driverAfter, source, value, file, savedAfter, whole) ==
    /\ nops < MaxOps
    /\ nops' = nops + 1
    /\ lastOp' = op
    /\ preDrv' = drv
    /\ drv' = driverAfter
    /\ pre' = NewByteSource
    /\ bs' = source
    /\ ret' = value
    /\ failure' = source.fail
    /\ input' = file
    /\ saved' = savedAfter
    /\ intact' = whole
    /\ UNCHANGED <<sink, preSink, el, loader, ehist, target, loop, fhist>>
    /\ UNCHANGED sharkVars
    /\ UNCHANGED tileVars

\* the file is opened and LoadScreenConfig reads it from its first byte
DoLoadScreenConfig ==
    \E r \in {LoadScreenConfig(drv, NewByteSource)} :
        ConfigStep("LoadScreenConfig", r.drv, r.b, r.ret, input, saved, intact)

\* SaveScreenConfig writes a new file
DoSaveScreenConfig ==
    ConfigStep("SaveScreenConfig", drv, NewByteSource, TRUE,
               SaveScreenConfig(drv), drv, TRUE)

DoSaveGridWithNextFilename ==
    ConfigStep("SaveGridWithNextFilename", SaveGridWithNextFilename(drv),
               NewByteSource, TRUE, input, saved, intact)

\* the file loses its tail
DoTruncate ==
    /\ intact
    /\ \E k \in 0 .. Len(input) - 1 :
          ConfigStep("truncate", drv, NewByteSource, TRUE,
                     SubSeq(input, 1, k), saved, FALSE)

\* one byte of the file is overwritten by a letter
DoGarble ==
    /\ intact
    /\ \E k \in 1 .. Len(input) :
          ConfigStep("garble", drv, NewByteSource, TRUE,
                     [input EXCEPT ![k] = Ord("g")], saved, FALSE)

NextConfig ==
    \/ DoLoadScreenConfig
    \/ DoSaveScreenConfig
    \/ DoSaveGridWithNextFilename
    \/ DoTruncate
    \/ DoGarble

SpecConfig == InitConfig /\ [][NextConfig]_vars

Loaded == lastOp = "LoadScreenConfig"

\* C15: when LoadScreenConfig returns false, every field of the driver,
\* the AER, recent AER, overhead percent, AEPS per frame and ms spent running
\* included, has the value it had before the call.
C15_FailedLoadChangesNothing ==
    (Loaded /\ ret = FALSE) => drv = preDrv

\* a load failed in its sixth scan, after five scans had read values that
\* differ from the driver's
C15_Witness ==
    /\ Loaded
    /\ ret = FALSE
    /\ ScanScreenConfig(NewByteSource).done = 5
    /\ saved.m_screenWidth # preDrv.m_screenWidth
    /\ saved.m_keyboardPaused # preDrv.m_keyboardPaused
    /\ drv = preDrv

C17_LoadKeepsPauseAndIndexes ==
    (Loaded /\ ret = TRUE) =>
        /\ drv.m_startPaused = preDrv.m_startPaused
        /\ drv.m_gridPaused = preDrv.m_gridPaused
        /\ drv.m_saveStateIndex = preDrv.m_saveStateIndex
        /\ drv.m_epochSaveStateIndex = preDrv.m_epochSaveStateIndex
        /\ drv.m_mousePaused = preDrv.m_mousePaused

\* a file holding other values for all five fields was loaded
C17_Witness ==
    /\ Loaded
    /\ ret = TRUE
    /\ intact
    /\ saved.m_startPaused # preDrv.m_startPaused
    /\ saved.m_gridPaused # preDrv.m_gridPaused
    /\ saved.m_saveStateIndex # preDrv.m_saveStateIndex
    /\ saved.m_epochSaveStateIndex # preDrv.m_epochSaveStateIndex
    /\ saved.m_mousePaused # preDrv.m_mousePaused
    /\ drv.m_keyboardPaused = saved.m_keyboardPaused

----------------------------------------------------------------------------
(* Specification of the RunHelper frames *)

\* a constructed driver, started with or without --run
InitFrame ==
    /\ SourceNew({<<>>})
    /\ ElementsNew
    /\ SharkIdle
    /\ TilesIdle
    /\ drv \in {[NewDriver EXCEPT !.m_startPaused = paused] : paused \in BOOLEAN}
    /\ preDrv = drv
    /\ saved = NewDriver
    /\ intact = TRUE
    /\ loop = LoopStart
    /\ fhist = HistStart

FrameStep(op, driverAfter, loopAfter, histAfter) ==
    /\ lastOp' = op
    /\ preDrv' = drv
    /\ drv' = driverAfter
    /\ loop' = loopAfter
    /\ fhist' = histAfter
    /\ UNCHANGED <<input, bs, sink, ret, pre, preSink, nops, failure,
                   el, loader, ehist, target, saved, intact>>
    /\ UNCHANGED sharkVars
    /\ UNCHANGED tileVars

\* RunHelper, up to its loop
RunHelperStart ==
    /\ loop.pc = "start"
    /\ FrameStep("RunHelper",
                 [drv EXCEPT !.m_keyboardPaused = drv.m_startPaused,
                             !.m_singleStep = FALSE],
                 [loop EXCEPT !.pc = "events"],
                 [fhist EXCEPT !.command = "start"])

\* the history after an event clicked `button`
Clicked(button) ==
    IF button \in {"Step", "Run"}
    THEN [fhist EXCEPT !.command = IF button = "Step" THEN "step" ELSE "run",
                       !.updates = 0, !.cleanUpdates = 0, !.gridUpdates = 0]
    ELSE IF button \in AdminButtons
    THEN [fhist EXCEPT !.admin = [op |-> button, pc |-> loop.pc,
                                  before |-> fhist.totalGrid]]
    ELSE fhist

\* case SDL_MOUSEBUTTONDOWN, dispatched to the root panel
PollMouseButtonDown ==
    /\ Dispatching
    /\ loop.polled < MaxPoll
    /\ \E which \in MouseButtons, button \in ClickTargets :
          FrameStep("SDL_MOUSEBUTTONDOWN", OnClick(button, drv),
                    [loop EXCEPT !.mouseButtonsDown = @ \cup {which},
                                 !.polled = @ + 1],
                    Clicked(button))

\* case SDL_MOUSEBUTTONUP, dispatched to the root panel
PollMouseButtonUp ==
    /\ Dispatching
    /\ loop.polled < MaxPoll
    /\ \E which \in MouseButtons, button \in ClickTargets :
          FrameStep("SDL_MOUSEBUTTONUP", OnClick(button, drv),
                    [loop EXCEPT !.mouseButtonsDown = @ \ {which},
                                 !.polled = @ + 1],
                    Clicked(button))

\* case SDL_KEYDOWN with the accelerator of a button
PollKey ==
    /\ Dispatching
    /\ loop.polled < MaxPoll
    /\ \E button \in ClickTargets \ {"none"} :
          FrameStep("SDL_KEYDOWN", OnClick(button, drv),
                    [loop EXCEPT !.polled = @ + 1],
                    Clicked(button))

\* a click on Clear Tile or Pause Tile, or the accelerator key of one of them,
\* with or without a selected tile: OnClick fails and the frame loop is left
PollTileButton ==
    /\ Dispatching
    /\ loop.polled < MaxPoll
    /\ \E button \in TileButtons, selected \in BOOLEAN :
          /\ lastOp' = button
          /\ failure' = TileOnClick(button)
          /\ loop' = [loop EXCEPT !.pc = IF failure' = "none" THEN "events" ELSE "failed",
                                  !.polled = @ + 1]
          /\ preDrv' = drv
          /\ UNCHANGED <<input, bs, sink, ret, pre, preSink, nops,
                         el, loader, ehist, target, saved, intact, drv, fhist>>
          /\ UNCHANGED sharkVars
          /\ UNCHANGED tileVars

\* the rest of the frame after the events: m_mousePaused is set, Update is
\* called and, unless the grid is paused, it enters Super::UpdateGrid
DoUpdate ==
    /\ loop.pc = "events"
    /\ loop.frames < MaxFrames
    /\ LET down == loop.mouseButtonsDown # {}
           entry == [drv EXCEPT !.m_mousePaused = down,
                                !.m_thisUpdateIsEpoch = FALSE]
           runs == UpdatesGrid(entry)
           counted == [fhist EXCEPT
                          !.updates = @ + 1,
                          !.cleanUpdates = @ + (IF down THEN 0 ELSE 1),
                          !.gridUpdates = @ + (IF runs THEN 1 ELSE 0),
                          !.totalGrid = @ + (IF runs THEN 1 ELSE 0),
                          !.update = [mouseDown |-> down,
                                      keyboardPaused |-> entry.m_keyboardPaused,
                                      singleStep |-> entry.m_singleStep,
                                      grid |-> runs]]
       IN  FrameStep("Update", UpdateBefore(entry),
                     IF runs THEN [loop EXCEPT !.pc = "grid"]
                             ELSE [loop EXCEPT !.polled = 0, !.frames = @ + 1],
                     counted)

\* Super::UpdateGrid returns, having reached an epoch or not, and Update and
\* the frame complete
UpdateGridReturns ==
    /\ loop.pc = "grid"
    /\ \E epoch \in BOOLEAN :
          FrameStep("UpdateGrid",
                    UpdateAfter([drv EXCEPT !.m_thisUpdateIsEpoch = epoch]),
                    [loop EXCEPT !.pc = "events", !.polled = 0, !.frames = @ + 1],
                    fhist)

NextFrame ==
    \/ RunHelperStart
    \/ PollMouseButtonDown
    \/ PollMouseButtonUp
    \/ PollKey
    \/ PollTileButton
    \/ DoUpdate
    \/ UpdateGridReturns

SpecFrame == InitFrame /\ [][NextFrame]_vars

\* C18: after a Step click, and until the next run or step command, the
\* Update calls before the first one entered with no mouse button down do not
\* call UpdateGrid, that one does, and no later one does; once that Update
\* has ended the driver is keyboard-paused and m_singleStep is false.
C18_SingleStepAdvancesOnce ==
    fhist.command = "step" =>
        /\ fhist.gridUpdates = (IF fhist.cleanUpdates = 0 THEN 0 ELSE 1)
        /\ (fhist.cleanUpdates >= 1 /\ loop.pc # "grid")
              => (drv.m_keyboardPaused /\ ~drv.m_singleStep)

\* a Step click with a mouse button held: one Update passed with the button
\* down, the next one stepped the grid, a third one did not
C18_Witness ==
    /\ fhist.command = "step"
    /\ fhist.updates = 3
    /\ fhist.cleanUpdates = 2
    /\ fhist.gridUpdates = 1
    /\ ~fhist.update.grid
    /\ drv.m_keyboardPaused

\* C19: an Update call of the RunHelper loop calls UpdateGrid only if no
\* mouse button is down and the driver is not keyboard-paused or has a step
\* pending; an Update entered keyboard-paused with no step pending, or with a
\* mouse button held, does not advance the grid.
C19_PauseStopsTheGrid ==
    /\ fhist.update.grid =>
          /\ ~fhist.update.mouseDown
          /\ (~fhist.update.keyboardPaused \/ fhist.update.singleStep)
    /\ (fhist.updates > 0
        /\ \/ fhist.update.mouseDown
           \/ (fhist.update.keyboardPaused /\ ~fhist.update.singleStep))
          => ~fhist.update.grid

\* a running grid was held back by a mouse button, after an earlier Update
\* had advanced it
C19_Witness ==
    /\ fhist.totalGrid >= 1
    /\ fhist.update.mouseDown
    /\ ~fhist.update.keyboardPaused
    /\ ~fhist.update.grid
    /\ loop.pc = "events"

\* C20: a click on Clear Grid, Nuke, XRay, Thin or the background radiation
\* box is handled in the event phase of a frame, while no UpdateGrid call is
\* in progress.
C20_AdminBetweenGridUpdates ==
    fhist.admin.op # "none" => fhist.admin.pc = "events"

\* a Nuke was clicked after one UpdateGrid call, and another call followed
C20_Witness ==
    /\ fhist.admin.op = "Nuke"
    /\ fhist.admin.before >= 1
    /\ fhist.totalGrid > fhist.admin.before
    /\ loop.pc = "grid"

\* C21: a click on the Clear Tile button or on the Pause Tile button does not
\* put the program into a failure state.
C21_TileButtonsDoNotFail ==
    lastOp \in TileButtons => failure = "none"

----------------------------------------------------------------------------
(* Specification of the tile workers *)

InitTiles == InitWith({<<>>})

TileStep(op, chanAfter, tilesAfter, atomsAfter, ackedAfter) ==
    /\ chan' = chanAfter
    /\ tiles' = tilesAfter
    /\ atoms' = atomsAfter
    /\ acked' = ackedAfter
    /\ nops' = (IF op = "PickSite" THEN nops + 1 ELSE nops)
    /\ UNCHANGED <<input, bs, sink, lastOp, ret, pre, preSink, failure,
                   el, loader, ehist, target>>
    /\ UNCHANGED sharkVars
    /\ UNCHANGED guiVars

\* the per-tile loop picks a site and starts acquiring the locks of its window
PickSite(t) ==
    /\ tiles[t].pc = "idle"
    /\ nops < MaxAttempts
    /\ \E d \in EventSites(t) :
          TileStep("PickSite", chan,
                   [tiles EXCEPT ![t] = [@ EXCEPT !.pc = "locking", !.site = d,
                                                  !.needed = Needed(t, d)]],
                   atoms, acked)

\* the next lock in the order is granted
AcquireLock(t) ==
    /\ tiles[t].pc = "locking"
    /\ Granted(t, NextLock(t))
    /\ LET all == tiles[t].got + 1 = Len(tiles[t].needed)
       IN  TileStep("AcquireLock",
                    [chan EXCEPT ![t][NextLock(t)] = "Locked"],
                    [tiles EXCEPT ![t] = [@ EXCEPT !.got = @ + 1,
                                                   !.pc = IF all THEN "window"
                                                          ELSE "locking"]],
                    atoms, acked)

\* the next lock is refused: the worker keeps what it holds and tries again
Retry(t) ==
    /\ tiles[t].pc = "locking"
    /\ ~Granted(t, NextLock(t))
    /\ tiles[t].retries < MaxRetries
    /\ TileStep("Retry", chan,
                [tiles EXCEPT ![t] = [@ EXCEPT !.retries = @ + 1]],
                atoms, acked)

\* refused after the last retry: the attempt is abandoned and every lock it
\* holds is released
Abandon(t) ==
    /\ tiles[t].pc = "locking"
    /\ ~Granted(t, NextLock(t))
    /\ tiles[t].retries >= MaxRetries
    /\ TileStep("Abandon",
                [chan EXCEPT ![t] = [d \in Dirs |-> "Idle"]],
                [tiles EXCEPT ![t] = IdleWorker],
                atoms, acked)

\* the behaviour runs on the window: it reads the halo cells the window
\* covers and modifies cells of its own tile
RunBehavior(t) ==
    /\ tiles[t].pc = "window"
    /\ LET d == tiles[t].site
           seen == {[cell |-> c, value |-> atoms[t][c], acked |-> acked[t][c],
                     interior |-> atoms[c[1]][c]] : c \in HaloCells(t, d)}
       IN  TileStep("RunBehavior", chan,
                    [tiles EXCEPT ![t] = [@ EXCEPT !.pc = "ran", !.reads = seen,
                                   !.wrote = {<<t, c>> : c \in BehaviorWrites(t, d)}]],
                    [atoms EXCEPT ![t] = [c \in Storage(t) |->
                        IF c \in BehaviorWrites(t, d) THEN atoms[t][c] + 1
                                                      ELSE atoms[t][c]]],
                    acked)

\* the modified cell is pushed, as a copy, to every neighbour whose halo
\* mirrors it
Push(t) ==
    /\ tiles[t].pc = "ran"
    /\ LET d == tiles[t].site
           to == {Neighbor(t, e) : e \in WindowDirs(t, d)}
       IN  TileStep("Push",
                    [chan EXCEPT ![t] = [e \in Dirs |->
                        IF e \in WindowDirs(t, d) THEN "PendingPush" ELSE chan[t][e]]],
                    [tiles EXCEPT ![t] = [@ EXCEPT !.pc = "pushed",
                                   !.wrote = @ \cup {<<n, <<t, d>>>> : n \in to}]],
                    [n \in TileGrid |->
                        IF n \in to
                        THEN [atoms[n] EXCEPT ![<<t, d>>] = PushedValue(t, d)]
                        ELSE atoms[n]],
                    acked)

\* tile t acknowledges the push of its neighbour in direction e
Acknowledge(t) ==
    \E e \in Dirs :
        /\ IsConnected(t, e)
        /\ chan[Neighbor(t, e)][Opposite(e)] = "PendingPush"
        /\ LET n == Neighbor(t, e)
               c == <<n, tiles[n].site>>
           IN  TileStep("Acknowledge",
                        [chan EXCEPT ![n][Opposite(e)] = "Acknowledged"],
                        tiles, atoms,
                        [acked EXCEPT ![t][c] = atoms[t][c]])

\* every push is acknowledged: the locks are released and the event is over
Release(t) ==
    /\ tiles[t].pc = "pushed"
    /\ \A e \in WindowDirs(t, tiles[t].site) : chan[t][e] = "Acknowledged"
    /\ TileStep("Release",
                [chan EXCEPT ![t] = [d \in Dirs |-> "Idle"]],
                [tiles EXCEPT ![t] = IdleWorker],
                atoms, acked)

Worker(t) ==
    \/ PickSite(t)
    \/ AcquireLock(t)
    \/ Retry(t)
    \/ Abandon(t)
    \/ RunBehavior(t)
    \/ Push(t)
    \/ Acknowledge(t)
    \/ Release(t)

DoPickSite == \E t \in TileGrid : PickSite(t)
DoAcquireLock == \E t \in TileGrid : AcquireLock(t)
DoRetry == \E t \in TileGrid : Retry(t)
DoAbandon == \E t \in TileGrid : Abandon(t)
DoRunBehavior == \E t \in TileGrid : RunBehavior(t)
DoPush == \E t \in TileGrid : Push(t)
DoAcknowledge == \E t \in TileGrid : Acknowledge(t)
DoRelease == \E t \in TileGrid : Release(t)

NextTiles ==
    \/ DoPickSite
    \/ DoAcquireLock
    \/ DoRetry
    \/ DoAbandon
    \/ DoRunBehavior
    \/ DoPush
    \/ DoAcknowledge
    \/ DoRelease

\* one independent worker per tile: each keeps taking its steps
SpecTiles ==
    InitTiles /\ [][NextTiles]_vars /\ \A t \in TileGrid : WF_vars(Worker(t))

\* worker t is refused a lock, which the worker of that neighbour holds
Waits(t) == tiles[t].pc = "locking" /\ ~Granted(t, NextLock(t))

RECURSIVE WaitChain(_, _, _)
\* whether a chain of n or fewer waits leads from worker t to worker u
WaitChain(t, u, n) ==
    /\ n > 0
    /\ Waits(t)
    /\ \E v \in {Neighbor(t, NextLock(t))} : v = u \/ WaitChain(v, u, n - 1)

NoWaitCycle == \A t \in TileGrid : ~WaitChain(t, t, Cardinality(TileGrid))

Halo(t) == DOMAIN acked[t]

----------------------------------------------------------------------------
(* ByteSource: the pending byte and the read counter *)

\* C25: Unread() called while a byte is pending (after an Unread() or a
\* Peek() with no Read() since) fails the MFM_API_ASSERT_STATE check and
\* changes neither the pending flag nor the read count; called in any other
\* state it succeeds and leaves a byte pending.
C25_UnreadRequiresNothingPending ==
    [][ /\ lastOp' = "Unread" =>
               IF bs.m_unread
               THEN /\ failure' = "ILLEGAL_STATE"
                    /\ bs'.m_unread = bs.m_unread
                    /\ GetBytesRead(bs') = GetBytesRead(bs)
               ELSE /\ failure' = "none"
                    /\ bs'.m_unread
        /\ (lastOp \in {"Unread", "Peek"} /\ lastOp' = "Unread") =>
               failure' = "ILLEGAL_STATE" ]_vars

\* an Unread() directly after a Peek() that returned a byte has failed
C25_Witness ==
    /\ lastOp = "Unread"
    /\ failure = "ILLEGAL_STATE"
    /\ pre.m_unread
    /\ bs.m_unread
    /\ GetBytesRead(bs) = U32(0)
    /\ NumReadByte(bs) = 1
    /\ bs.m_lastRead >= 0

Pending(b) == IF b.m_unread THEN 1 ELSE 0

\* C26: the read counter never wraps: in every state reached from
\* construction or Reset by Read, Unread and Peek, m_read is the number of
\* ReadByte() calls of the epoch, less one while a byte is pending, and
\* that number is not negative.
C26_ReadCounterNeverWraps ==
    /\ NumReadByte(bs) >= Pending(bs)
    /\ GetBytesRead(bs) = U32(NumReadByte(bs) - Pending(bs))

----------------------------------------------------------------------------
(* AbstractGUIDriver: m_gridPaused after Update *)

\* Update has returned: without calling UpdateGrid, or after it
UpdateReturned ==
    \/ lastOp = "UpdateGrid"
    \/ (lastOp = "Update" /\ loop.pc = "events")

\* C27: after every Update call, including one that performs a single step,
\* m_gridPaused == (m_keyboardPaused || m_mousePaused), the field that
\* SaveScreenConfig writes as it is.
C27_GridPausedIffKeyboardOrMouse ==
    UpdateReturned =>
        drv.m_gridPaused = (drv.m_keyboardPaused \/ drv.m_mousePaused)

----------------------------------------------------------------------------
(* Element_Shark: energy and reproduction in one event *)

\* the values of the energy-per-fish parameter a behaviour starts with
EnergiesPerFish == {0, DEFAULT_ENERGY_PER_FISH, MAX_SHARK_ENERGY}

InitEnergy ==
    /\ SourceNew({<<>>})
    /\ ElementsNew
    /\ grid \in InitGrids
    /\ m_sharkEnergyPerFish \in EnergiesPerFish
    /\ event = NoEvent
    /\ nevents = 0
    /\ lineage = NoLineage
    /\ GuiIdle
    /\ TilesIdle

NextEnergy == DoBehavior

SpecEnergy == InitEnergy /\ [][NextEnergy]_vars

\* the centre Shark of the last event, as the event found it
Self == event.pre[event.center]

\* the sites the last event wrote
WrittenSites ==
    {PointAdd(event.center, rel) :
        rel \in Written("SetCenterAtom") \cup Written("SetRelativeAtom")}

\* the Shark atoms the last event wrote
WrittenSharks == {grid[s] : s \in {w \in WrittenSites : grid[w].type = "Shark"}}

Ate == Candidates(event.pre, event.center, "Fish") # {}

Moved == ~Ate /\ Candidates(event.pre, event.center, "Empty") # {}

Reproduced == Self.age >= Self.birthAge /\ (Ate \/ Moved)

Min(a, b) == IF a <= b THEN a ELSE b

\* the energy after the decrement and the meal of the last event
Fed ==
    IF Ate THEN Min(MAX_SHARK_ENERGY, Self.energy - 1 + m_sharkEnergyPerFish)
    ELSE Self.energy - 1

\* C28: every Shark atom an event writes has its energy in 0..511; a Shark
\* with energy 0 is replaced by the Empty default atom and nothing else is
\* written; otherwise the energy written is e-1 when the Shark does not eat,
\* min(511, e-1+energyPerFish) when it eats, and half of that, rounded down,
\* when it reproduces.
C28_EnergyInRange ==
    nevents > 0 =>
        /\ \A s \in Sites : grid[s].energy \in 0 .. MAX_SHARK_ENERGY
        /\ Self.energy = 0 =>
               /\ grid = [event.pre EXCEPT ![event.center] = EmptyAtom]
               /\ WrittenSites = {event.center}
        /\ Self.energy > 0 =>
               /\ WrittenSharks # {}
               /\ \A w \in WrittenSharks :
                      w.energy = IF Reproduced THEN Fed \div 2 ELSE Fed

\* a young Shark ate a Fish worth more than it could hold: the meal was
\* capped and the Shark moved on with the highest energy
C28_Witness ==
    /\ nevents > 0
    /\ Self.energy < MAX_SHARK_ENERGY
    /\ m_sharkEnergyPerFish = MAX_SHARK_ENERGY
    /\ Ate
    /\ ~Reproduced
    /\ \E w \in WrittenSharks : w.energy = MAX_SHARK_ENERGY

NumSharks(g) == Cardinality({s \in Sites : g[s].type = "Shark"})

\* the site the last event moved or reproduced to
Targets == {PointAdd(event.center, rel) : rel \in Written("SetRelativeAtom")}

\* C29: a Shark of birth age or older that eats or moves leaves identical
\* Sharks of age 0 and energy floor(E/2) on the centre and on the target, E
\* the energy after the decrement and the meal; a younger one leaves Empty
\* on the centre and a Shark one event older on the target, the number of
\* Sharks unchanged.  An event changes the number of Sharks by -1, 0 or +1,
\* and the target is a Fish neighbour whenever there is one.
C29_ReproductionSplitsEnergy ==
    (nevents > 0 /\ Self.energy > 0) =>
        /\ (Ate \/ Moved) =>
               /\ Cardinality(Targets) = 1
               /\ \A t \in Targets :
                      /\ t # event.center
                      /\ event.pre[t].type = (IF Ate THEN "Fish" ELSE "Empty")
                      /\ IF Reproduced
                         THEN /\ grid[t] = grid[event.center]
                              /\ grid[t] = [Self EXCEPT !.age = 0, !.energy = Fed \div 2]
                              /\ grid[t].energy + grid[event.center].energy <= Fed
                              /\ NumSharks(grid) = NumSharks(event.pre) + 1
                         ELSE /\ grid[event.center] = EmptyAtom
                              /\ grid[t] = [Self EXCEPT !.age = Self.age + 1, !.energy = Fed]
                              /\ NumSharks(grid) = NumSharks(event.pre)
        /\ NumSharks(grid) - NumSharks(event.pre) \in {0 - 1, 0, 1}

\* a Shark of birth age with a Fish and an Empty neighbour ate the Fish and
\* left a kid behind
C29_Witness ==
    /\ nevents > 0
    /\ Reproduced
    /\ Ate
    /\ Candidates(event.pre, event.center, "Empty") # {}
    /\ NumSharks(grid) = NumSharks(event.pre) + 1
    /\ grid[event.center].age = 0

----------------------------------------------------------------------------
(* Specification of Shark events in a world without Fish *)

\* most Shark events in one behaviour of a world without Fish
MaxHungry == 14

\* birth age, current age and energy of the Sharks such a world starts with,
\* on one or two sites
HungrySharks ==
    {WaPatAtom("Shark", INITIAL_DEFAULT_BIRTH_AGE, s[1], s[2]) :
        s \in {<<INITIAL_DEFAULT_BIRTH_AGE - 1, 3>>,
               <<INITIAL_DEFAULT_BIRTH_AGE, 2>>}}

HungryGrids ==
    {[s \in Sites |-> IF s \in has THEN shark ELSE EmptyAtom] :
       has \in {{a, b} : a \in Cross, b \in Cross},
       shark \in HungrySharks}

InitStarve ==
    /\ SourceNew({<<>>})
    /\ ElementsNew
    /\ grid \in HungryGrids
    /\ m_sharkEnergyPerFish = DEFAULT_ENERGY_PER_FISH
    /\ event = NoEvent
    /\ nevents = 0
    /\ lineage = [s \in Sites |-> [events |-> 0, origin |-> grid[s].energy]]
    /\ GuiIdle
    /\ TilesIdle

\* the lineage of every Shark after an event centred on `center` that left
\* the grid `after`: the Sharks the event wrote carry on that of the centre
Descend(center, after) ==
    [s \in Sites |->
        IF after[s].type # "Shark" THEN [events |-> 0, origin |-> 0]
        ELSE IF s = center \/ after[s] # grid[s]
        THEN [events |-> lineage[center].events + 1,
              origin |-> lineage[center].origin]
        ELSE lineage[s]]

\* an event on a site that holds a Shark, scheduled by the Tile
DoHungryBehavior ==
    /\ nevents < MaxHungry
    /\ \E center \in Sites :
        /\ grid[center].type = "Shark"
        /\ \E draws \in Outcomes(grid, center, m_sharkEnergyPerFish) :
              /\ SharkEvent(center, draws)
              /\ lineage' = Descend(center, grid')
    /\ UNCHANGED guiVars
    /\ UNCHANGED tileVars

NextStarve == DoHungryBehavior

SpecStarve == InitStarve /\ [][NextStarve]_vars /\ WF_vars(DoHungryBehavior)

NoSharks == NumSharks(grid) = 0

\* every Shark has at most as many events behind it, its ancestors' included,
\* as the first of them has lost energy
LineageBound ==
    \A s \in Sites :
        grid[s].type = "Shark" =>
            lineage[s].events + grid[s].energy <= lineage[s].origin

RECURSIVE Hunger(_, _)
\* twice the energy of the Sharks on the sites `todo` of the grid g, plus
\* their number: the events they and their copies can still have
Hunger(g, todo) ==
    IF todo = {} THEN 0
    ELSE LET s == CHOOSE x \in todo : TRUE
         IN  (IF g[s].type = "Shark" THEN 2 * g[s].energy + 1 ELSE 0)
             + Hunger(g, todo \ {s})

\* the last event lowered the energy of every Shark it wrote below that of
\* its centre, removed a centre Shark of energy 0, and brought no Fish
HungryEvent ==
    /\ \A w \in WrittenSharks : w.energy < Self.energy
    /\ Self.energy = 0 =>
          /\ grid[event.center] = EmptyAtom
          /\ NumSharks(grid) = NumSharks(event.pre) - 1
    /\ \A s \in Sites : grid[s].type # "Fish"
    /\ Hunger(grid, Sites) < Hunger(event.pre, Sites)

\* C30: in a world without Fish, where events keep being scheduled on
\* Sharks, every Shark is eventually replaced by Empty: each event lowers the
\* energy of every Shark it writes, an event at energy 0 removes the Shark,
\* a Shark of energy e is gone after at most e+1 events centred on it or on
\* the copies that carry it on, and events are scheduled until no Shark is
\* left.
C30_SharksWithoutFoodDieOut ==
    /\ LineageBound
    /\ nevents > 0 => HungryEvent
    /\ NoSharks \/ nevents < MaxHungry

\* the last Shark to starve was a copy made in this world, after its parent
\* had moved once and then reproduced
C30_Witness ==
    /\ NoSharks
    /\ nevents >= 5
    /\ Self.energy = 0
    /\ Self.age = 0
    /\ lineage = NoLineage

====
